---- MODULE Spec2Model ----
(***************************************************************************)
(* Verification model of the go-backup-app core (package core):            *)
(*   - TaskRunner (core/taskrunner.go): cron / watch / debounce scheduling *)
(*   - BackupManager.Backup / BackupIncremental worker pool                *)
(*   - BackupManager.Restore / runRestore worker pool                      *)
(*   - the chunk pipelines of the compressed and the encrypted writer      *)
(* Each subsystem has its own specification (SpecTR, ...) over its own     *)
(* variables; the variables of the other subsystems are left unchanged.    *)
(***************************************************************************)
EXTENDS Integers, Sequences, FiniteSets, TLC

(***************************************************************************)
(* ------------------------------ Variables ------------------------------ *)
(***************************************************************************)

\* TaskRunner (core/taskrunner.go)
VARIABLES
  started,     \* TaskRunner.started
  tasks,       \* TaskRunner.tasks: task id -> taskState object (0: no entry)
  st,          \* the taskState objects, by object index
  timers,      \* armed time.AfterFunc timers: [id, rem (ticks left), cur (st.debounce is this timer)]
  runCalls,    \* runTask calls made but not yet inside their first critical section
  reqCalls,    \* watch-goroutine events taken from watcher.Events, requestRun not yet entered
  execs,       \* executor invocations in progress: [id, obj, n]
  trg          \* history record used to state the claims (counters, ages of the last event,
               \* manual: RunNow has been called)

trVars == <<started, tasks, st, timers, runCalls, reqCalls, execs, trg>>

\* BackupManager.Backup / BackupIncremental
VARIABLES
  bkIn,        \* the call: [mode, roots, parent (source tree the parent archive was taken of)]
  bkPC,        \* position of the calling goroutine in the step list of the call
  bkScan,      \* scanResult.jobs once scanSources has returned
  bkJobs,      \* the jobs the producer goroutine hands out (scan jobs, or changedJobs)
  bkDest,      \* destFile: "absent", "old" (exists from before the call), "new" (os.Create'd)
  bkArchive,   \* entries written through archiveWriter, in stream order
  bkNext,      \* index of the next job of the producer goroutine
  bkProd,      \* producer goroutine: "idle", "run", "closed" (pathsChan closed)
  bkW,         \* worker goroutines: [pc, job]
  bkErrChan,   \* errChan contents
  bkCtxDone,   \* m.ctx cancelled
  bkRet,       \* return value of the call ("none" while it runs)
  bkG          \* history record used to state the claims

bkVars == <<bkIn, bkPC, bkScan, bkJobs, bkDest, bkArchive, bkNext, bkProd, bkW,
            bkErrChan, bkCtxDone, bkRet, bkG>>

\* BackupManager.Restore / restoreSingle / runRestore
VARIABLES
  rsCase,      \* the call and the archives it reads: see RsCases
  rsPC,        \* Restore: "resolve", "loop", "run" (inside runRestore), "done"
  rsChain,     \* the chain resolveRestoreChain returned, base first
  rsIdx,       \* index in rsChain of the archive being restored
  rsEntries,   \* entries of the current archive not yet read by NextEntry
  rsProd,      \* the producer of runRestore: [pc, e (entry in hand), err (producerErr)]
  rsJobsChan,  \* jobsChan contents
  rsChanClosed,\* close(jobsChan) has run
  rsPrClosed,  \* the read side of the pipe the producer writes to is closed
  rsW,         \* worker goroutines: [pc, job]
  rsErrChan,   \* errChan contents (capacity 1)
  rsDir,       \* the file tree under restoreDir
  rsCtxDone,   \* m.ctx cancelled
  rsRet,       \* return value of Restore ("none" while it runs)
  rsG,         \* history record used to state the claims; meta: the paths created
               \* in restoreDir at or below .qbakmeta
  rsCf         \* App: [counter (requestIDCounter), reqs (keys of conflictRequests),
               \*       chan (request id -> contents of responseChan, or "closed"),
               \*       waiting (worker -> id of the request its handler waits on, 0: none),
               \*       returned (StartRestore has returned)]

rsVars == <<rsCase, rsPC, rsChain, rsIdx, rsEntries, rsProd, rsJobsChan, rsChanClosed,
            rsPrClosed, rsW, rsErrChan, rsDir, rsCtxDone, rsRet, rsG, rsCf>>

\* The chunk pipelines: huffmanWriter (core/huffman.go) and parallelStreamWriter
VARIABLES
  pwCfg,       \* the run: [kind, n (chunks Write submits), tail (Close has a chunk to flush),
               \*           sinkFailAt, compFailAt (chunk ids whose write / compression fails)]
  pwPC,        \* the goroutine that calls Write and Close: position
  pwNextID,    \* nextID of the writer
  pwJobs,      \* jobs channel contents (chunk ids)
  pwJobsClosed,\* close(jobs) has run
  pwResults,   \* results channel contents: [id, err]
  pwResClosed, \* close(results) has run
  pwW,         \* worker goroutines: [pc, id]
  pwAgg,       \* resultWriter / aggregator goroutine: [pc, pending, next]
  pwSink,      \* chunk ids written to the underlying writer, in order
  pwErr,       \* hw.err / sw.writeErr ("" when nil)
  pwCtxDone,   \* sw.ctx cancelled (parallelStreamWriter only)
  pwRet,       \* return value of Close ("none" until it returns)
  pwG          \* history record used to state the claims

pwVars == <<pwCfg, pwPC, pwNextID, pwJobs, pwJobsClosed, pwResults, pwResClosed, pwW,
            pwAgg, pwSink, pwErr, pwCtxDone, pwRet, pwG>>

\* Backup workers at the archive writer: archiveMutex and ArchiveWriter.WriteEntry
VARIABLES
  mxKinds,     \* the jobs of the call: job index -> "file" or "dir"
  mxNext,      \* index of the next job the producer hands out (0: no call)
  mxW,         \* worker goroutines: [pc, job, part (index of the next piece to write)]
  mxHolder,    \* archiveMutex: the worker that holds it, 0 when unlocked
  mxStream     \* pieces written to the archive stream, in order: [job, part]

mxVars == <<mxKinds, mxNext, mxW, mxHolder, mxStream>>

\* The diff of BackupIncremental
VARIABLES
  dfCur,        \* currentMap: path -> ManifestFile of the current scan
  dfPar,        \* parentMap: path -> ManifestFile of the parent manifest
  dfPC,         \* "idle", "parent" (first loop), "current" (second loop), "sort", "done"
  dfTodo,       \* the keys the running range loop has not visited yet
  dfChanged,    \* changedSet
  dfDeleted,    \* deletedSet
  dfOut         \* [changedPaths, deletedPaths, ret] once the diff has been evaluated

dfVars == <<dfCur, dfPar, dfPC, dfTodo, dfChanged, dfDeleted, dfOut>>

\* The Huffman codec and the compressed reader
VARIABLES
  hfData,      \* the bytes given to the compressed writer
  hfOut,       \* the streams of the two writer runs, NoStream before a run
  hfPC,        \* "compress", "open", "read", "notCompressed"
  hfBad,       \* the damage done to the stream that is read
  hfStream,    \* the stream under the compressed reader
  hfProd,      \* producer goroutine: [pc, pos (next chunk of the stream), nextID]
  hfJobs,      \* jobs channel: [id, data]
  hfW,         \* decompression workers: [pc, res]
  hfResults,   \* results channel: [id, data, err]
  hfResClosed, \* close(results) has run
  hfAgg,       \* aggregator: [pc, buffer (resultsBuffer), next (nextWriteID)]
  hfCtx,       \* ctx of the pipeline is cancelled
  hfErr,       \* pipelineErr, "" for nil
  hfPipe       \* what Read has delivered: [data, closed, err]

hfVars == <<hfData, hfOut, hfPC, hfBad, hfStream, hfProd, hfJobs,
           hfW, hfResults, hfResClosed, hfAgg, hfCtx, hfErr, hfPipe>>

\* The stream ciphers and the decrypting reader
VARIABLES
  enCfg,       \* [algorithm, len, seed]: the cipher and the plaintext
  enPC,        \* "encrypt", "open", "read"
  enBody,      \* the ciphertext body: as the writer left it, then as the reader finds it
  enDamage,    \* what happened to the body before it is read
  enProd,      \* producer goroutine: [pc, off (bytes of the body read), nextID, n, err]
  enJobs,      \* jobs channel: [id, data]
  enW,         \* decryption workers: [pc, id, data]
  enResults,   \* results channel: [id, data]
  enResClosed, \* close(results) has run
  enAgg,       \* aggregator: [pc, buffer (resultsBuffer), next (nextWriteID)]
  enCtx,       \* ctx of the pipeline is cancelled
  enErr,       \* pipelineErr, "" for nil
  enPipe,      \* what Read has delivered: [data, closed, err]
  enConsumer,  \* the caller of the reader: "reading", or "closed" after its Close
  enKeys       \* the buffers holding the derived key, of the writer and of the reader:
               \* [wKey, wKeyCopy, rKey, rKeyCopy], each "unset", "key" or "zero"

enVars == <<enCfg, enPC, enBody, enDamage, enProd, enJobs, enW,
           enResults, enResClosed, enAgg, enCtx, enErr, enPipe, enConsumer, enKeys>>

\* The backup filters
VARIABLES
  flCfg,       \* the FilterConfig
  flPath,      \* the path given to ShouldInclude
  flInfo,      \* its os.FileInfo: [Name, IsDir, ModTime, Size]
  flPC,        \* "call", "returned"
  flResult     \* what ShouldInclude returned

flVars == <<flCfg, flPath, flInfo, flPC, flResult>>

vars == <<trVars, bkVars, rsVars, pwVars, mxVars, dfVars, hfVars, enVars, flVars>>

TROnly == UNCHANGED <<bkVars, rsVars, pwVars, mxVars, dfVars, hfVars, enVars, flVars>>
BKOnly == UNCHANGED <<trVars, rsVars, pwVars, mxVars, dfVars, hfVars, enVars, flVars>>
RSOnly == UNCHANGED <<trVars, bkVars, pwVars, mxVars, dfVars, hfVars, enVars, flVars>>
PWOnly == UNCHANGED <<trVars, bkVars, rsVars, mxVars, dfVars, hfVars, enVars, flVars>>
MXOnly == UNCHANGED <<trVars, bkVars, rsVars, pwVars, dfVars, hfVars, enVars, flVars>>
DFOnly == UNCHANGED <<trVars, bkVars, rsVars, pwVars, mxVars, hfVars, enVars, flVars>>
HFOnly == UNCHANGED <<trVars, bkVars, rsVars, pwVars, mxVars, dfVars, enVars, flVars>>
ENOnly == UNCHANGED <<trVars, bkVars, rsVars, pwVars, mxVars, dfVars, hfVars, flVars>>
FLOnly == UNCHANGED <<trVars, bkVars, rsVars, pwVars, mxVars, dfVars, hfVars, enVars>>

(***************************************************************************)
(* ----------------------------- TaskRunner ------------------------------ *)
(***************************************************************************)

\* Bounds of the task-runner model.
MaxInputs == 5     \* calls and events from outside: Start, Stop, Upsert, Remove, RunNow,
                   \* cron ticks and filesystem events
Debounce == 2      \* debounce interval of the watch task, in clock ticks

\* taskState objects: Upsert allocates at most one per call.
ObjIds == 1..MaxInputs

TaskIds == {"t1"}
TaskTypes == {"schedule", "watch"}
CallKinds == {"ext", "timer", "rerun"}

\* taskState as constructed by Upsert: &taskState{task: task}
NewTaskState(task) ==
  [task |-> task, cronEntry |-> FALSE, watcher |-> FALSE, debounce |-> FALSE,
   running |-> FALSE, pending |-> FALSE, live |-> TRUE]

FreeTaskState ==
  [task |-> [Enabled |-> FALSE, Type |-> "schedule", LastBackupPath |-> 0],
   cronEntry |-> FALSE, watcher |-> FALSE, debounce |-> FALSE,
   running |-> FALSE, pending |-> FALSE, live |-> FALSE]

TaskValues == [Enabled : BOOLEAN, Type : TaskTypes, LastBackupPath : {0}]

Registered(id) == tasks[id] # 0

\* st.debounce.Stop(): an armed timer is disarmed, a fired one is not recalled.
StopTimer(ts, id, s) ==
  IF s.debounce THEN {t \in ts : ~(t.id = id /\ t.cur)} ELSE ts

\* stopTaskLocked: the taskState after the cron entry, the debounce timer and the
\* watcher have been released.
StoppedState(s) ==
  [s EXCEPT !.cronEntry = FALSE, !.debounce = FALSE, !.watcher = FALSE]

\* applyTaskLocked after stopTaskLocked: install the cron entry or the watcher of
\* an enabled task.
AppliedState(s) ==
  IF ~s.task.Enabled THEN StoppedState(s)
  ELSE IF s.task.Type = "schedule" THEN [StoppedState(s) EXCEPT !.cronEntry = TRUE]
  ELSE [StoppedState(s) EXCEPT !.watcher = TRUE]

\* st.debounce = <new timer>: the previous timer is no longer the one st points to.
Forgotten(ts, id) ==
  {IF t.id = id THEN [t EXCEPT !.cur = FALSE] ELSE t : t \in ts}

\* requestRun: stop the previous debounce timer, arm a new one.
Rearm(ts, id, s) ==
  Forgotten(StopTimer(ts, id, s), id) \cup {[id |-> id, rem |-> Debounce, cur |-> TRUE]}

\* runTask when the task is already running, dropping the trigger.
MarkPendingDropped(s) == s

\* runTask when the task is already running: st.pending = true.
MarkPending(s) == [s EXCEPT !.pending = TRUE]

TotalRunCalls(id) ==
  runCalls[id]["ext"] + runCalls[id]["timer"] + runCalls[id]["rerun"]

InitTRVars ==
  /\ started = FALSE
  /\ tasks = [id \in TaskIds |-> 0]
  /\ st = [o \in ObjIds |-> FreeTaskState]
  /\ timers = {}
  /\ runCalls = [id \in TaskIds |-> [k \in CallKinds |-> 0]]
  /\ reqCalls = [id \in TaskIds |-> 0]
  /\ execs = {}
  /\ trg = [inputs |-> 0, calls |-> 0, events |-> 0, execStarted |-> 0,
            disturbed |-> FALSE, idleTrig |-> 0, busy1 |-> 0, busyLater |-> 0,
            timerRuns |-> 0, manual |-> FALSE,
            ageArr |-> Debounce, burstsArr |-> 0, ageReq |-> Debounce, burstsReq |-> 0]

\* History: a call that changes the registration after the first trigger or event.
Disturb(g) ==
  IF g.calls + g.events > 0 THEN [g EXCEPT !.disturbed = TRUE] ELSE g

\* stopTaskLocked applied to every registered task (Start via applyTaskLocked, Stop).
StopAllTimers(ts) ==
  {t \in ts : ~(Registered(t.id) /\ st[tasks[t.id]].debounce /\ t.cur)}

Start ==
  /\ TROnly
  /\ trg.inputs < MaxInputs
  /\ ~started
  /\ started' = TRUE
  /\ st' = [o \in ObjIds |->
              IF \E id \in TaskIds : tasks[id] = o THEN AppliedState(st[o]) ELSE st[o]]
  /\ timers' = StopAllTimers(timers)
  /\ trg' = [Disturb(trg) EXCEPT !.inputs = @ + 1]
  /\ UNCHANGED <<tasks, runCalls, reqCalls, execs>>

Stop ==
  /\ TROnly
  /\ trg.inputs < MaxInputs
  /\ started
  /\ started' = FALSE
  /\ st' = [o \in ObjIds |->
              IF \E id \in TaskIds : tasks[id] = o THEN StoppedState(st[o]) ELSE st[o]]
  /\ timers' = StopAllTimers(timers)
  /\ trg' = [Disturb(trg) EXCEPT !.inputs = @ + 1]
  /\ UNCHANGED <<tasks, runCalls, reqCalls, execs>>

Upsert(id, task) ==
  /\ TROnly
  /\ trg.inputs < MaxInputs
  /\ IF Registered(id)
       THEN LET o == tasks[id]
                s == [st[o] EXCEPT !.task = task]
            IN /\ st' = [st EXCEPT ![o] = IF started THEN AppliedState(s) ELSE s]
               /\ timers' = IF started THEN StopTimer(timers, id, st[o]) ELSE timers
               /\ UNCHANGED tasks
       ELSE /\ \E o \in ObjIds :
                 /\ ~st[o].live
                 /\ \A p \in ObjIds : ~st[p].live => o <= p
                 /\ tasks' = [tasks EXCEPT ![id] = o]
                 /\ st' = [st EXCEPT ![o] = IF started THEN AppliedState(NewTaskState(task))
                                            ELSE NewTaskState(task)]
            /\ UNCHANGED timers
  /\ trg' = [Disturb(trg) EXCEPT !.inputs = @ + 1]
  /\ UNCHANGED <<started, runCalls, reqCalls, execs>>

Remove(id) ==
  /\ TROnly
  /\ trg.inputs < MaxInputs
  /\ Registered(id)
  /\ LET o == tasks[id] IN
       /\ st' = [st EXCEPT ![o] = StoppedState(st[o])]
       /\ timers' = StopTimer(timers, id, st[o])
  /\ tasks' = [tasks EXCEPT ![id] = 0]
  /\ trg' = [Disturb(trg) EXCEPT !.inputs = @ + 1]
  /\ UNCHANGED <<started, runCalls, reqCalls, execs>>

\* RunNow(taskID): a runTask call is made.
RunNow(id) ==
  /\ TROnly
  /\ trg.inputs < MaxInputs
  /\ runCalls' = [runCalls EXCEPT ![id]["ext"] = @ + 1]
  /\ trg' = [trg EXCEPT !.inputs = @ + 1, !.calls = @ + 1, !.manual = TRUE]
  /\ UNCHANGED <<started, tasks, st, timers, reqCalls, execs>>

\* The cron scheduler runs the entry's function in a goroutine of its own.
CronTick(id) ==
  /\ TROnly
  /\ trg.inputs < MaxInputs
  /\ started
  /\ Registered(id)
  /\ st[tasks[id]].cronEntry
  /\ runCalls' = [runCalls EXCEPT ![id]["ext"] = @ + 1]
  /\ trg' = [trg EXCEPT !.inputs = @ + 1, !.calls = @ + 1]
  /\ UNCHANGED <<started, tasks, st, timers, reqCalls, execs>>

\* The watch goroutine receives an event from watcher.Events; requestRun follows
\* after the os.Stat / addWatchRecursive of created directories.
WatchEvent(id) ==
  /\ TROnly
  /\ trg.inputs < MaxInputs
  /\ started
  /\ Registered(id)
  /\ st[tasks[id]].watcher
  /\ reqCalls[id] = 0
  /\ reqCalls' = [reqCalls EXCEPT ![id] = @ + 1]
  /\ trg' = [trg EXCEPT !.inputs = @ + 1, !.events = @ + 1,
                        !.ageArr = 0,
                        !.burstsArr = IF trg.ageArr < Debounce THEN @ ELSE @ + 1]
  /\ UNCHANGED <<started, tasks, st, timers, runCalls, execs>>

\* requestRun(taskID, debounce), under tr.mu.
RequestRun(id) ==
  /\ TROnly
  /\ reqCalls[id] > 0
  /\ reqCalls' = [reqCalls EXCEPT ![id] = @ - 1]
  /\ IF Registered(id) /\ st[tasks[id]].task.Enabled
       THEN LET o == tasks[id] IN
            /\ timers' = Rearm(timers, id, st[o])
            /\ st' = [st EXCEPT ![o].debounce = TRUE]
            /\ trg' = [trg EXCEPT !.ageReq = 0,
                                  !.burstsReq = IF trg.ageReq < Debounce THEN @ ELSE @ + 1]
       ELSE UNCHANGED <<timers, st, trg>>
  /\ UNCHANGED <<started, tasks, runCalls, execs>>

\* A debounce timer expires: its function (tr.runTask(taskID)) starts in a goroutine.
TimerFire(id) ==
  /\ TROnly
  /\ \E t \in timers :
       /\ t.id = id
       /\ t.rem = 0
       /\ timers' = timers \ {t}
  /\ runCalls' = [runCalls EXCEPT ![id]["timer"] = @ + 1]
  /\ UNCHANGED <<started, tasks, st, reqCalls, execs, trg>>

\* runTask, first critical section.
RunTaskEnter(id, kind) ==
  /\ TROnly
  /\ runCalls[id][kind] > 0
  /\ runCalls' = [runCalls EXCEPT ![id][kind] = @ - 1]
  /\ IF ~Registered(id) \/ ~st[tasks[id]].task.Enabled
       THEN UNCHANGED <<st, execs, trg>>
       ELSE LET o == tasks[id] IN
            IF st[o].running
              THEN /\ st' = [st EXCEPT ![o] = MarkPending(st[o])]
                   /\ UNCHANGED execs
                   /\ trg' = [trg EXCEPT
                        !.timerRuns = IF kind = "timer" THEN @ + 1 ELSE @,
                        !.busy1 = IF kind # "rerun" /\ trg.execStarted = 1 THEN @ + 1 ELSE @,
                        !.busyLater = IF kind = "rerun" \/ trg.execStarted > 1 THEN @ + 1 ELSE @]
              ELSE /\ st' = [st EXCEPT ![o].running = TRUE]
                   /\ execs' = execs \cup {[id |-> id, obj |-> o, n |-> trg.execStarted + 1]}
                   /\ trg' = [trg EXCEPT
                        !.execStarted = @ + 1,
                        !.timerRuns = IF kind = "timer" THEN @ + 1 ELSE @,
                        !.idleTrig = IF kind = "rerun" THEN @ ELSE @ + 1]
  /\ UNCHANGED <<started, tasks, timers, reqCalls>>

ExecOutcomes == {"path", "empty", "error"}

\* LastBackupPath overwritten whatever the executor returned.
RecordPathAlways(s, outcome, n) == [s EXCEPT !.task.LastBackupPath = n]

\* runTask: if err == nil && newPath != "" { st.task.Config.LastBackupPath = newPath }
RecordPath(s, outcome, n) ==
  [s EXCEPT !.task.LastBackupPath = IF outcome = "path" THEN n ELSE @]

\* runTask, after the executor returned (newPath, err): second critical section.
RunTaskDone(e, outcome) ==
  /\ TROnly
  /\ e \in execs
  /\ execs' = execs \ {e}
  /\ LET s == st[e.obj]
         s1 == RecordPath([s EXCEPT !.running = FALSE], outcome, e.n)
     IN IF s.pending
          THEN /\ st' = [st EXCEPT ![e.obj] = [s1 EXCEPT !.pending = FALSE]]
               /\ runCalls' = [runCalls EXCEPT ![e.id]["rerun"] = @ + 1]
          ELSE /\ st' = [st EXCEPT ![e.obj] = s1]
               /\ UNCHANGED runCalls
  /\ UNCHANGED <<started, tasks, timers, reqCalls, trg>>

\* One clock tick passes; an expired timer fires before the clock moves on.
Tick ==
  /\ TROnly
  /\ \A t \in timers : t.rem > 0
  /\ timers # {} \/ trg.ageArr < Debounce \/ trg.ageReq < Debounce
  /\ timers' = {[t EXCEPT !.rem = @ - 1] : t \in timers}
  /\ trg' = [trg EXCEPT !.ageArr = IF @ < Debounce THEN @ + 1 ELSE @,
                        !.ageReq = IF @ < Debounce THEN @ + 1 ELSE @]
  /\ UNCHANGED <<started, tasks, st, runCalls, reqCalls, execs>>

NextTR ==
  \/ Start
  \/ Stop
  \/ \E id \in TaskIds, task \in TaskValues : Upsert(id, task)
  \/ \E id \in TaskIds : Remove(id)
  \/ \E id \in TaskIds : RunNow(id)
  \/ \E id \in TaskIds : CronTick(id)
  \/ \E id \in TaskIds : WatchEvent(id)
  \/ \E id \in TaskIds : RequestRun(id)
  \/ \E id \in TaskIds : TimerFire(id)
  \/ \E id \in TaskIds, kind \in CallKinds : RunTaskEnter(id, kind)
  \/ \E e \in execs, outcome \in ExecOutcomes : RunTaskDone(e, outcome)
  \/ Tick

(***************************************************************************)
(* ------------------ Source trees, scanSources, manifest ----------------- *)
(***************************************************************************)

MaxVer == 2        \* versions of a file: a version stands for its bytes, size and mtime

\* Relative paths of a source root, in filepath.Walk (lexical) order.
WalkOrder == <<".", "a", "a/x">>
Paths == {"a", "a/x"}
PathRank(p) == CHOOSE k \in 1..Len(WalkOrder) : WalkOrder[k] = p

NoNode == [t |-> "none", v |-> 0]
DirNode == [t |-> "dir", v |-> 0]
FileNode(v) == [t |-> "file", v |-> v]
Nodes == {NoNode, DirNode} \cup {FileNode(v) : v \in 1..MaxVer}

\* File trees below a root directory: a/x exists only inside the directory a.
Trees == {tr \in [Paths -> Nodes] : tr["a/x"].t # "none" => tr["a"].t = "dir"}
EmptyTree == [p \in Paths |-> NoNode]

\* A source path given to Backup: the root directory itself (start "."), or the
\* regular file a inside it (start "a", baseDir = filepath.Dir(startPath)).
Roots == {r \in [start : {".", "a"}, tree : Trees] :
            r.start = "a" => r.tree["a"].t = "file"}

\* os.Lstat(job.path)
SourceNode(roots, job) ==
  IF job.relPath = "." THEN DirNode ELSE roots[job.root].tree[job.relPath]

\* scanSources, one startPath: addEntry for the start path or for every walked path.
scanRoot(r, i) ==
  IF r.start = "a"
    THEN <<[root |-> i, relPath |-> "a"]>>
    ELSE SelectSeq([k \in 1..Len(WalkOrder) |-> [root |-> i, relPath |-> WalkOrder[k]]],
                   LAMBDA j : j.relPath = "." \/ r.tree[j.relPath].t # "none")

RECURSIVE scanFrom(_, _)
scanFrom(roots, i) ==
  IF i > Len(roots) THEN <<>> ELSE scanRoot(roots[i], i) \o scanFrom(roots, i + 1)

\* scanResult.jobs
scanJobs(roots) == scanFrom(roots, 1)

\* scanResult.selectedFileCount
selectedFileCount(roots, jobs) ==
  Cardinality({k \in DOMAIN jobs : SourceNode(roots, jobs[k]).t # "dir"})

\* ManifestFile as addEntry fills it from os.Lstat: Size only for a regular file,
\* LinkDest only for a symlink; Mode holds the type bits and the permissions.
ManifestFileOf(path, type, perm, mtime, size, dest) ==
  [Path |-> path, Mode |-> [type |-> type, perm |-> perm], ModTime |-> mtime,
   IsDir |-> type = "dir", IsLink |-> type = "link",
   Size |-> IF type = "file" THEN size ELSE 0,
   LinkDest |-> IF type = "link" THEN dest ELSE ""]

\* The ManifestFile of a node of a source tree: a version stands for size and mtime.
ManifestFile(path, node) == ManifestFileOf(path, node.t, "rw", node.v, node.v, "")

RECURSIVE InsertByPath(_, _)
InsertByPath(files, f) ==
  IF files = <<>> THEN <<f>>
  ELSE IF PathRank(f.Path) < PathRank(Head(files).Path) THEN <<f>> \o files
  ELSE <<Head(files)>> \o InsertByPath(Tail(files), f)

\* The file list left in the order the entries were added.
sortManifestFilesSkipped(files) == files

RECURSIVE sortManifestFiles(_)
sortManifestFiles(files) ==
  IF files = <<>> THEN <<>>
  ELSE InsertByPath(sortManifestFiles(Tail(files)), Head(files))

\* scanResult.files: every entry but ".", sorted by path.
scanFiles(roots, jobs) ==
  LET named == SelectSeq(jobs, LAMBDA j : j.relPath # ".")
  IN sortManifestFiles([k \in 1..Len(named) |->
                          ManifestFile(named[k].relPath, SourceNode(roots, named[k]))])

\* scanResult.jobsByRelPath[p]: the last job added for p.
jobsByRelPath(jobs, p) ==
  jobs[CHOOSE k \in DOMAIN jobs :
         jobs[k].relPath = p /\ \A l \in DOMAIN jobs : jobs[l].relPath = p => l <= k]

manifestFilesToMap(files) ==
  [p \in {files[k].Path : k \in DOMAIN files} |->
     files[CHOOSE k \in DOMAIN files :
             files[k].Path = p /\ \A l \in DOMAIN files : files[l].Path = p => l <= k]]

equalForDiff(mf, other) ==
  IF mf.Path # other.Path THEN FALSE
  ELSE IF mf.IsDir # other.IsDir \/ mf.IsLink # other.IsLink THEN FALSE
  ELSE IF mf.Mode # other.Mode THEN FALSE
  ELSE IF mf.IsLink THEN mf.LinkDest = other.LinkDest
  ELSE IF mf.IsDir THEN TRUE
  ELSE IF mf.Size # other.Size THEN FALSE
  ELSE mf.ModTime = other.ModTime

\* A type test that looks at directories only.
typeChangedDirOnly(cur, prev) == cur.IsDir # prev.IsDir

\* BackupIncremental: if cur.IsDir != prev.IsDir || cur.IsLink != prev.IsLink
typeChanged(cur, prev) == cur.IsDir # prev.IsDir \/ cur.IsLink # prev.IsLink

\* BackupIncremental: deletedSet and changedSet of the current scan against the parent.
deletedSet(cur, par) ==
  {p \in DOMAIN par : p \notin DOMAIN cur}
    \cup {p \in DOMAIN cur \cap DOMAIN par :
            ~equalForDiff(cur[p], par[p]) /\ typeChanged(cur[p], par[p])}

changedSet(cur, par) ==
  {p \in DOMAIN cur : p \notin DOMAIN par \/ ~equalForDiff(cur[p], par[p])}

\* sort.Strings over a set of paths
RECURSIVE sortStrings(_)
sortStrings(ps) ==
  IF ps = {} THEN <<>>
  ELSE LET p == CHOOSE q \in ps : \A o \in ps : PathRank(q) <= PathRank(o)
       IN <<p>> \o sortStrings(ps \ {p})

DirRoot(tree) == [start |-> ".", tree |-> tree]

\* Manifest files of a parent archive that is a backup of the tree pt.
parentFiles(pt) == scanFiles(<<DirRoot(pt)>>, scanJobs(<<DirRoot(pt)>>))

\* BackupIncremental: changedPaths and deletedPaths, sorted.
changedPaths(roots, jobs, pt) ==
  sortStrings(changedSet(manifestFilesToMap(scanFiles(roots, jobs)),
                         manifestFilesToMap(parentFiles(pt))))

deletedPaths(roots, jobs, pt) ==
  sortStrings(deletedSet(manifestFilesToMap(scanFiles(roots, jobs)),
                         manifestFilesToMap(parentFiles(pt))))

\* BackupIncremental: changedJobs
changedJobs(roots, jobs, pt) ==
  [k \in 1..Len(changedPaths(roots, jobs, pt)) |->
     jobsByRelPath(jobs, changedPaths(roots, jobs, pt)[k])]

(***************************************************************************)
(* ------------------------- Archive entries ------------------------------ *)
(***************************************************************************)

manifestEntryPath == ".qbakmeta/manifest.json"

\* A directory named like the reserved prefix, and a file inside it.
metaDirPath == ".qbakmeta"
metaFilePath == ".qbakmeta/x"

\* The paths of the model that lie under .qbakmeta/, and those at or under it.
UnderMetaDir == {manifestEntryPath, metaFilePath}
MetaPaths == {metaDirPath} \cup UnderMetaDir

\* A prefix test that knows the manifest only.
isInternalPathManifestOnly(path) == path = manifestEntryPath

\* strings.HasPrefix(path, internalMetaPrefix), over the paths of the model
isInternalPath(path) == path \in UnderMetaDir

\* crc32 of a payload (versions are small numbers; distinct versions, distinct sums)
crc32Of(v) == (5 * v + 3) % 7

\* FileMetadata plus payload and trailing CRC as WriteEntry lays them out.
Entry(path, kind, v) ==
  [Path |-> path, kind |-> kind, v |-> v, crc |-> IF kind = "file" THEN crc32Of(v) ELSE 0,
   btype |-> "", parent |-> 0, files |-> <<>>]

ManifestEntry(btype, parent, files) ==
  [Path |-> manifestEntryPath, kind |-> "manifest", v |-> 0, crc |-> 0,
   btype |-> btype, parent |-> parent, files |-> files]

\* BackupIncremental: the deletion markers of the deleted paths.
Tombstones(paths) == [k \in 1..Len(paths) |-> Entry(paths[k], "del", 0)]

\* The entry a backup worker writes for a job: directory or regular file with CRC.
JobEntry(roots, job) ==
  LET n == SourceNode(roots, job) IN Entry(job.relPath, n.t, n.v)

(***************************************************************************)
(* ------------------- Backup / BackupIncremental ------------------------- *)
(***************************************************************************)

BackupWorkers == 2     \* worker goroutines of the pool (backupWorkers = 8 in the code)

BkWorkers == 1..BackupWorkers
ErrChanCap == BackupWorkers      \* make(chan error, backupWorkers)

\* The statements of Backup up to the worker pool, in program order.
BackupSteps == <<"scan", "checkSelected", "create", "manifest", "pool">>

\* The statements of BackupIncremental up to the worker pool, in program order.
IncrementalSteps ==
  <<"readParent", "scan", "diff", "create", "manifest", "tombstones", "pool">>

\* Both calls with os.Create(destFile) as their first statement.
StepsCreateFirst(mode) ==
  IF mode = "full" THEN <<"create", "scan", "checkSelected", "manifest", "pool">>
  ELSE <<"create", "readParent", "scan", "diff", "manifest", "tombstones", "pool">>

\* Both calls with the manifest written after the other entries have been started.
StepsManifestLate(mode) ==
  IF mode = "full" THEN <<"scan", "checkSelected", "create", "pool", "manifest">>
  ELSE <<"readParent", "scan", "diff", "create", "tombstones", "manifest", "pool">>

Steps(mode) == IF mode = "full" THEN BackupSteps ELSE IncrementalSteps

\* The source paths of a call: none, one root, or two regular files of two roots.
RootLists ==
  {<<>>} \cup {<<r>> : r \in Roots}
         \cup {<<r1, r2>> : r1 \in {r \in Roots : r.start = "a"},
                            r2 \in {r \in Roots : r.start = "a"}}

\* Source paths scanned out of path order: a directory holding a/x, then the
\* regular file a of another root.
MixedRootLists ==
  {<<r1, r2>> : r1 \in {r \in Roots : r.start = "." /\ r.tree["a/x"] = FileNode(1)},
                r2 \in {r \in Roots : r.start = "a" /\ r.tree["a"] = FileNode(1)}}

BkInputs ==
  {[mode |-> "full", roots |-> rl, parent |-> EmptyTree] :
     rl \in RootLists \cup MixedRootLists}
    \cup {[mode |-> "incr", roots |-> <<DirRoot(t)>>, parent |-> pt] : t \in Trees, pt \in Trees}

BkRet(kind, job) == [kind |-> kind, job |-> job]
BkIdleWorker == [pc |-> "idle", job |-> 0]

InitBKVars ==
  /\ bkIn \in BkInputs
  /\ bkPC = 1
  /\ bkScan = <<>>
  /\ bkJobs = <<>>
  /\ bkDest \in {"absent", "old"}
  /\ bkArchive = <<>>
  /\ bkNext = 1
  /\ bkProd = "idle"
  /\ bkW = [w \in BkWorkers |-> BkIdleWorker]
  /\ bkErrChan = <<>>
  /\ bkCtxDone = FALSE
  /\ bkRet = BkRet("none", 0)
  /\ bkG = [failed |-> 0, firstErr |-> 0, handedAfterErr |-> FALSE,
            archived |-> {}, cancelMissing |-> FALSE, closeErr |-> "none"]

\* No backup call in the system.
BKParked ==
  /\ bkIn = [mode |-> "full", roots |-> <<>>, parent |-> EmptyTree]
  /\ bkPC = 1
  /\ bkScan = <<>>
  /\ bkJobs = <<>>
  /\ bkDest = "absent"
  /\ bkArchive = <<>>
  /\ bkNext = 1
  /\ bkProd = "idle"
  /\ bkW = [w \in BkWorkers |-> BkIdleWorker]
  /\ bkErrChan = <<>>
  /\ bkCtxDone = FALSE
  /\ bkRet = BkRet("done", 0)
  /\ bkG = [failed |-> 0, firstErr |-> 0, handedAfterErr |-> FALSE,
            archived |-> {}, cancelMissing |-> FALSE, closeErr |-> "none"]

\* The calling goroutine is about to execute the named statement.
BkAt(step) ==
  /\ bkRet.kind = "none"
  /\ bkPC <= Len(Steps(bkIn.mode))
  /\ Steps(bkIn.mode)[bkPC] = step

BkPoolStarted == bkPC > Len(Steps(bkIn.mode))

BkChangedPaths == changedPaths(bkIn.roots, bkScan, bkIn.parent)
BkDeletedPaths == deletedPaths(bkIn.roots, bkScan, bkIn.parent)

\* BackupIncremental: readManifest(parentBackupFile, password)
BkReadParent ==
  /\ BKOnly
  /\ BkAt("readParent")
  /\ bkPC' = bkPC + 1
  /\ UNCHANGED <<bkIn, bkScan, bkJobs, bkDest, bkArchive, bkNext, bkProd, bkW,
                 bkErrChan, bkCtxDone, bkRet, bkG>>

\* scanSources(srcPaths, filters)
BkScanSources ==
  /\ BKOnly
  /\ BkAt("scan")
  /\ IF bkIn.roots = <<>>
       THEN bkRet' = BkRet("NoFilesSelected", 0) /\ UNCHANGED <<bkPC, bkScan>>
       ELSE IF bkCtxDone
         THEN bkRet' = BkRet("cancel", 0) /\ UNCHANGED <<bkPC, bkScan>>
         ELSE /\ bkScan' = scanJobs(bkIn.roots)
              /\ bkPC' = bkPC + 1
              /\ UNCHANGED bkRet
  /\ UNCHANGED <<bkIn, bkJobs, bkDest, bkArchive, bkNext, bkProd, bkW,
                 bkErrChan, bkCtxDone, bkG>>

\* Backup: if scanRes.selectedFileCount == 0 { return ErrNoFilesSelected }
BkCheckSelected ==
  /\ BKOnly
  /\ BkAt("checkSelected")
  /\ IF selectedFileCount(bkIn.roots, bkScan) = 0
       THEN bkRet' = BkRet("NoFilesSelected", 0) /\ UNCHANGED <<bkPC, bkJobs>>
       ELSE /\ bkJobs' = bkScan
            /\ bkPC' = bkPC + 1
            /\ UNCHANGED bkRet
  /\ UNCHANGED <<bkIn, bkScan, bkDest, bkArchive, bkNext, bkProd, bkW,
                 bkErrChan, bkCtxDone, bkG>>

\* BackupIncremental: the diff against the parent manifest; ErrNoChanges when empty.
BkDiff ==
  /\ BKOnly
  /\ BkAt("diff")
  /\ IF BkChangedPaths = <<>> /\ BkDeletedPaths = <<>>
       THEN bkRet' = BkRet("NoChanges", 0) /\ UNCHANGED <<bkPC, bkJobs>>
       ELSE /\ bkJobs' = changedJobs(bkIn.roots, bkScan, bkIn.parent)
            /\ bkPC' = bkPC + 1
            /\ UNCHANGED bkRet
  /\ UNCHANGED <<bkIn, bkScan, bkDest, bkArchive, bkNext, bkProd, bkW,
                 bkErrChan, bkCtxDone, bkG>>

\* os.Create(destFile)
BkCreate ==
  /\ BKOnly
  /\ BkAt("create")
  /\ bkDest' = "new"
  /\ bkPC' = bkPC + 1
  /\ UNCHANGED <<bkIn, bkScan, bkJobs, bkArchive, bkNext, bkProd, bkW,
                 bkErrChan, bkCtxDone, bkRet, bkG>>

\* archiveWriter.WriteEntry(manifestMeta, ...)
BkManifest ==
  /\ BKOnly
  /\ BkAt("manifest")
  /\ bkArchive' = Append(bkArchive,
       ManifestEntry(IF bkIn.mode = "full" THEN "full" ELSE "incremental",
                     IF bkIn.mode = "full" THEN 0 ELSE 1,
                     scanFiles(bkIn.roots, bkScan)))
  /\ bkPC' = bkPC + 1
  /\ UNCHANGED <<bkIn, bkScan, bkJobs, bkDest, bkNext, bkProd, bkW,
                 bkErrChan, bkCtxDone, bkRet, bkG>>

\* BackupIncremental: one deletion marker per deleted path, by the calling goroutine.
BkTombstones ==
  /\ BKOnly
  /\ BkAt("tombstones")
  /\ bkArchive' = bkArchive \o Tombstones(BkDeletedPaths)
  /\ bkPC' = bkPC + 1
  /\ UNCHANGED <<bkIn, bkScan, bkJobs, bkDest, bkNext, bkProd, bkW,
                 bkErrChan, bkCtxDone, bkRet, bkG>>

\* The workers and the producer goroutine are started; the caller goes to wg.Wait().
BkStartPool ==
  /\ BKOnly
  /\ BkAt("pool")
  /\ bkW' = [w \in BkWorkers |-> [pc |-> "recv", job |-> 0]]
  /\ bkProd' = "run"
  /\ bkPC' = bkPC + 1
  /\ UNCHANGED <<bkIn, bkScan, bkJobs, bkDest, bkArchive, bkNext,
                 bkErrChan, bkCtxDone, bkRet, bkG>>

\* Producer: select { case <-ctx.Done(): return; case pathsChan <- job: } meets a
\* worker's receive (pathsChan is unbuffered).
BkHand(w) ==
  /\ BKOnly
  /\ bkProd = "run"
  /\ bkNext <= Len(bkJobs)
  /\ bkW[w].pc = "recv"
  /\ bkW' = [bkW EXCEPT ![w] = [pc |-> "got", job |-> bkNext]]
  /\ bkNext' = bkNext + 1
  /\ bkG' = [bkG EXCEPT !.handedAfterErr = @ \/ bkG.failed > 0]
  /\ UNCHANGED <<bkIn, bkPC, bkScan, bkJobs, bkDest, bkArchive, bkProd,
                 bkErrChan, bkCtxDone, bkRet>>

\* Producer returns (all jobs sent, or ctx.Done() chosen): deferred close(pathsChan).
BkProdClose ==
  /\ BKOnly
  /\ bkProd = "run"
  /\ bkNext > Len(bkJobs) \/ bkCtxDone
  /\ bkProd' = "closed"
  /\ UNCHANGED <<bkIn, bkPC, bkScan, bkJobs, bkDest, bkArchive, bkNext, bkW,
                 bkErrChan, bkCtxDone, bkRet, bkG>>

\* Worker, loop body: ctx poll, then Lstat / Open / WriteEntry under archiveMutex.
BkWorkerJob(w, ok) ==
  /\ BKOnly
  /\ bkW[w].pc = "got"
  /\ IF bkCtxDone
       THEN /\ bkW' = [bkW EXCEPT ![w] = [pc |-> "exit", job |-> 0]]
            /\ UNCHANGED <<bkArchive, bkG>>
       ELSE IF ok
         THEN /\ bkArchive' = Append(bkArchive, JobEntry(bkIn.roots, bkJobs[bkW[w].job]))
              /\ bkW' = [bkW EXCEPT ![w] = [pc |-> "recv", job |-> 0]]
              /\ bkG' = [bkG EXCEPT !.archived = @ \cup {bkW[w].job}]
         ELSE /\ bkW' = [bkW EXCEPT ![w].pc = "err"]
              /\ bkG' = [bkG EXCEPT !.failed = @ + 1,
                                    !.firstErr = IF @ = 0 THEN bkW[w].job ELSE @]
              /\ UNCHANGED bkArchive
  /\ UNCHANGED <<bkIn, bkPC, bkScan, bkJobs, bkDest, bkNext, bkProd,
                 bkErrChan, bkCtxDone, bkRet>>

\* Worker: errChan <- err; continue
BkSendErr(w) ==
  /\ BKOnly
  /\ bkW[w].pc = "err"
  /\ Len(bkErrChan) < ErrChanCap
  /\ bkErrChan' = Append(bkErrChan, bkW[w].job)
  /\ bkW' = [bkW EXCEPT ![w] = [pc |-> "recv", job |-> 0]]
  /\ UNCHANGED <<bkIn, bkPC, bkScan, bkJobs, bkDest, bkArchive, bkNext, bkProd,
                 bkCtxDone, bkRet, bkG>>

\* Worker: range over the closed pathsChan ends.
BkWorkerExit(w) ==
  /\ BKOnly
  /\ bkW[w].pc = "recv"
  /\ bkProd = "closed"
  /\ bkW' = [bkW EXCEPT ![w] = [pc |-> "exit", job |-> 0]]
  /\ UNCHANGED <<bkIn, bkPC, bkScan, bkJobs, bkDest, bkArchive, bkNext, bkProd,
                 bkErrChan, bkCtxDone, bkRet, bkG>>

\* What the deferred calls of Backup can meet on the way out: nothing, a failure
\* of writer.Close() (the compressor or the encryptor flushing what it buffered),
\* or a failure of outFile.Close().
CloseFailures == {"none", "writer", "outFile"}

\* wg.Wait(); close(errChan); the first error of errChan, or nil. The result is
\* fixed by the return statement; the deferred writer.Close() and outFile.Close()
\* run after it and what they return is dropped.
BkReturn(closeErr) ==
  /\ BKOnly
  /\ bkRet.kind = "none"
  /\ BkPoolStarted
  /\ \A w \in BkWorkers : bkW[w].pc = "exit"
  /\ bkRet' = IF bkErrChan # <<>> THEN BkRet("err", Head(bkErrChan)) ELSE BkRet("nil", 0)
  /\ bkG' = [bkG EXCEPT !.closeErr = closeErr]
  /\ UNCHANGED <<bkIn, bkPC, bkScan, bkJobs, bkDest, bkArchive, bkNext, bkProd, bkW,
                 bkErrChan, bkCtxDone>>

\* The context of the manager is cancelled (StopOperation).
BkCancel ==
  /\ BKOnly
  /\ bkRet.kind = "none"
  /\ ~bkCtxDone
  /\ bkCtxDone' = TRUE
  /\ bkG' = [bkG EXCEPT !.cancelMissing =
               BkPoolStarted /\ bkG.archived # DOMAIN bkJobs
                 /\ \E w \in BkWorkers : bkW[w].pc # "exit"]
  /\ UNCHANGED <<bkIn, bkPC, bkScan, bkJobs, bkDest, bkArchive, bkNext, bkProd, bkW,
                 bkErrChan, bkRet>>

NextBK ==
  \/ BkReadParent
  \/ BkScanSources
  \/ BkCheckSelected
  \/ BkDiff
  \/ BkCreate
  \/ BkManifest
  \/ BkTombstones
  \/ BkStartPool
  \/ \E w \in BkWorkers : BkHand(w)
  \/ BkProdClose
  \/ \E w \in BkWorkers, ok \in BOOLEAN : BkWorkerJob(w, ok)
  \/ \E w \in BkWorkers : BkSendErr(w)
  \/ \E w \in BkWorkers : BkWorkerExit(w)
  \/ \E closeErr \in CloseFailures : BkReturn(closeErr)
  \/ BkCancel

(***************************************************************************)
(* --------------- Archive streams: compression and encryption ------------ *)
(***************************************************************************)

\* A byte stream, by the layer its first bytes announce.
Stream(layer, entries, hdr, mac, key, inner) ==
  [layer |-> layer, entries |-> entries, hdr |-> hdr, mac |-> mac, key |-> key,
   inner |-> inner]

\* What ArchiveWriter produces: length-prefixed JSON headers, payloads, CRCs.
ArchiveStream(entries) == Stream("archive", entries, <<>>, <<>>, <<>>, <<>>)

\* NewCompressedWriter: the stream behind the "HUFF" magic.
CompressedStream(inner) == Stream("huff", <<>>, <<>>, <<>>, <<>>, inner)

\* Bytes of no known layout (a body decrypted with another key).
GarbageStream == Stream("garbage", <<>>, <<>>, <<>>, <<>>, <<>>)

version2 == 2          \* crypto.go: version2 = 0x02 (currentVersion)
HeaderSalt == <<"salt">>

\* A key derivation that ignores the password.
deriveKeyConst(password, salt) == <<"key", "", salt>>

\* deriveKey(password, salt): PBKDF2 over the password and the salt.
deriveKey(password, salt) == <<"key", password, salt>>

\* prf(key, data): HMAC-SHA256
prf(key, data) == <<"mac", key, data>>

\* NewEncryptedWriter: magic, version, salt, the header MAC under the derived key,
\* then the body encrypted under that key.
EncryptedStream(password, inner) ==
  LET hdr == <<"QBAKENCR", version2, HeaderSalt>>
      key == deriveKey(password, HeaderSalt)
  IN Stream("enc", <<>>, hdr, prf(key, hdr), key, inner)

\* The writer chain of Backup: archive -> compressor -> encryptor -> file.
WriteLayers(entries, comp, enc, password) ==
  LET a == ArchiveStream(entries)
      c == IF comp THEN CompressedStream(a) ELSE a
  IN IF enc THEN EncryptedStream(password, c) ELSE c

ReadOk(s) == [err |-> "", stream |-> s]
ReadErr(e) == [err |-> e, stream |-> GarbageStream]

\* NewDecryptedReader(r, password)
NewDecryptedReader(s, password) ==
  IF password = "" THEN ReadErr("PasswordRequired")
  ELSE LET key == deriveKey(password, s.hdr[3]) IN
       IF s.hdr[2] >= version2 /\ s.mac # prf(key, s.hdr) THEN ReadErr("InvalidPassword")
       ELSE ReadOk(IF s.key = key THEN s.inner ELSE GarbageStream)

\* getReaderPipe, second half: the HUFF magic, or for an encrypted file the check
\* that an archive header follows.
OpenCompression(s, encrypted) ==
  IF s.layer = "huff" THEN ReadOk(s.inner)
  ELSE IF encrypted /\ s.layer # "archive" THEN ReadErr("InvalidPassword")
  ELSE ReadOk(s)

\* getReaderPipe(backupFile, password)
getReaderPipe(s, password) ==
  IF s.layer = "enc"
    THEN IF password = "" THEN ReadErr("PasswordRequired")
         ELSE LET d == NewDecryptedReader(s, password) IN
              IF d.err # "" THEN d ELSE OpenCompression(d.stream, TRUE)
    ELSE OpenCompression(s, FALSE)

NoManifest == ManifestEntry("", 0, <<>>)

\* readManifest(backupFile, password): the manifest, or none when the first entry
\* is not the manifest entry.
readManifest(s, password) ==
  LET r == getReaderPipe(s, password) IN
  IF r.err # "" THEN [err |-> r.err, manifest |-> NoManifest]
  ELSE IF r.stream.entries = <<>> \/ Head(r.stream.entries).Path # manifestEntryPath
    THEN [err |-> "", manifest |-> NoManifest]
  ELSE [err |-> "", manifest |-> Head(r.stream.entries)]

RECURSIVE Reverse(_)
Reverse(q) == IF q = <<>> THEN <<>> ELSE Append(Reverse(Tail(q)), Head(q))

\* A walk that stops at a file seen before and keeps the files collected so far.
cycleDetectedKeepChain(chain) == [err |-> "", chain |-> Reverse(chain)]

\* resolveRestoreChain: return nil, fmt.Errorf("backup chain cycle detected at %s", current)
cycleDetected(chain) == [err |-> "cycle", chain |-> <<>>]

\* resolveRestoreChain: follow the parent pointers from backupFile to the base.
RECURSIVE resolveFrom(_, _, _, _)
resolveFrom(files, current, password, chain) ==
  IF \E k \in DOMAIN chain : chain[k] = current
    THEN cycleDetected(chain)
  ELSE LET m == readManifest(files[current], password) IN
       IF m.err # "" THEN [err |-> m.err, chain |-> <<>>]
       ELSE IF m.manifest = NoManifest \/ m.manifest.parent = 0
                 \/ m.manifest.btype = "full"
         THEN [err |-> "", chain |-> Reverse(Append(chain, current))]
       ELSE resolveFrom(files, m.manifest.parent, password, Append(chain, current))

resolveRestoreChain(files, backupFile, password) ==
  resolveFrom(files, backupFile, password, <<>>)

(***************************************************************************)
(* ------------------- Archives that the backups produce ------------------ *)
(***************************************************************************)

\* The order in which the pool's workers reach WriteEntry: as handed out, or reversed.
Permute(q, ord) ==
  [k \in 1..Len(q) |-> IF ord = "reversed" THEN q[Len(q) + 1 - k] ELSE q[k]]

JobEntries(roots, jobs) == [k \in 1..Len(jobs) |-> JobEntry(roots, jobs[k])]

\* Entries of the archive Backup writes for the roots.
fullEntries(roots, ord) ==
  <<ManifestEntry("full", 0, scanFiles(roots, scanJobs(roots)))>>
    \o Permute(JobEntries(roots, scanJobs(roots)), ord)

\* Entries of the archive BackupIncremental writes for the roots against a parent
\* archive (named parent) that is a backup of the tree pt.
incrEntries(roots, pt, parent, ord) ==
  <<ManifestEntry("incremental", parent, scanFiles(roots, scanJobs(roots)))>>
    \o Tombstones(deletedPaths(roots, scanJobs(roots), pt))
    \o Permute(JobEntries(roots, changedJobs(roots, scanJobs(roots), pt)), ord)

(***************************************************************************)
(* ------------------------ The file tree of restoreDir ------------------- *)
(***************************************************************************)

ParentOf(p) == IF p = "a/x" THEN "a" ELSE "."
IsUnder(q, p) == q = p \/ ParentOf(q) = p

\* os.RemoveAll(destPath)
RemoveAll(fs, p) == [q \in Paths |-> IF IsUnder(q, p) THEN NoNode ELSE fs[q]]

\* os.MkdirAll(p): fails when p or an ancestor of p is not a directory.
MkdirAllErr(fs, p) ==
  /\ p # "."
  /\ \/ fs[p].t = "file"
     \/ ParentOf(p) # "." /\ fs[ParentOf(p)].t = "file"

MkdirAll(fs, p) ==
  [q \in Paths |-> IF (q = p \/ q = ParentOf(p)) /\ fs[q].t = "none" THEN DirNode ELSE fs[q]]

\* writeFileFromPipe: MkdirAll(filepath.Dir(destPath)) then os.Create(destPath);
\* the created (or truncated) file is empty: version 0.
CreateErr(fs, p) == MkdirAllErr(fs, ParentOf(p)) \/ fs[p].t = "dir"
Create(fs, p) == [MkdirAll(fs, ParentOf(p)) EXCEPT ![p] = FileNode(0)]

\* io.CopyBuffer(outFile, pr, buffer): the bytes reach the file if it is still linked.
WriteContent(fs, p, v) == IF fs[p].t = "file" THEN [fs EXCEPT ![p] = FileNode(v)] ELSE fs

(***************************************************************************)
(* ------------------ Restore / restoreSingle / runRestore ---------------- *)
(***************************************************************************)

RestoreWorkers == 2    \* worker goroutines of runRestore (restoreWorkers = 8 in the code)

RsWorkers == 1..RestoreWorkers
JobsChanCap == RestoreWorkers    \* make(chan func(), restoreWorkers)

Password == "pw"
WrongPassword == "bad"

\* A tree already present under restoreDir.
OldTree == [p \in Paths |-> IF p = "a" THEN FileNode(1) ELSE NoNode]

HasFile(roots) == selectedFileCount(roots, scanJobs(roots)) > 0

RsCase(class, roots, next, ord, comp, enc, pwR, corrupt, dir0) ==
  [class |-> class, roots |-> roots, next |-> next, ord |-> ord, comp |-> comp,
   enc |-> enc, pwR |-> pwR, corrupt |-> corrupt, dir0 |-> dir0]

\* "full": Backup of the roots with every combination of layers, restored with
\*         the password of the backup into an empty directory.
RsFullCases ==
  {RsCase("full", rl, EmptyTree, ord, comp, enc, Password, "none", EmptyTree) :
     rl \in {r \in RootLists : HasFile(r)}, ord \in {"asScanned", "reversed"},
     comp \in BOOLEAN, enc \in BOOLEAN}

\* "chain": Backup of the tree roots[1].tree, then BackupIncremental of the tree
\*          next against it; the incremental is restored into an empty directory.
RsChainCases ==
  {RsCase("chain", <<DirRoot(tn[1])>>, tn[2], ord, FALSE, FALSE, Password, "none",
          EmptyTree) :
     tn \in {tn \in Trees \X Trees : HasFile(<<DirRoot(tn[1])>>) /\ tn[1] # tn[2]},
     ord \in {"asScanned", "reversed"}}

\* "corrupt": a full backup with the payload or the CRC of its first regular file
\*            altered on disk.
RsCorruptCases ==
  {RsCase("corrupt", <<DirRoot(t)>>, EmptyTree, "asScanned", FALSE, FALSE, Password, c,
          EmptyTree) :
     t \in {t \in Trees : HasFile(<<DirRoot(t)>>)}, c \in {"payload", "crc"}}

\* "password": an encrypted full backup or chain, restored with another password or
\*             with none, into an empty or a populated directory.
RsPasswordCases ==
  {RsCase(cl, <<DirRoot(OldTree)>>, EmptyTree, "asScanned", comp, TRUE, pw, "none", d) :
     cl \in {"full", "chain"}, comp \in BOOLEAN, pw \in {WrongPassword, ""},
     d \in {EmptyTree, OldTree}}

\* Incremental archives whose parent pointers form a cycle: "self" names itself,
\* "pair" is two archives naming each other, "rho" an archive whose parent is
\* one of such a pair. Restored into an empty or a populated directory.
CycleClasses == {"self", "pair", "rho"}

RsCycleCases ==
  {RsCase(cl, <<DirRoot(OldTree)>>, EmptyTree, "asScanned", FALSE, FALSE, Password, "none", d) :
     cl \in CycleClasses, d \in {EmptyTree, OldTree}}

\* "meta": a full backup of a directory that itself holds a directory .qbakmeta
\*         with a regular file x, restored into an empty directory.
RsMetaCases ==
  {RsCase("meta", <<DirRoot(OldTree)>>, EmptyTree, ord, FALSE, FALSE, Password, "none",
          EmptyTree) : ord \in {"asScanned"}}

\* The entries the workers of Backup write for .qbakmeta and .qbakmeta/x.
MetaEntries == <<Entry(metaDirPath, "dir", 0), Entry(metaFilePath, "file", 1)>>

\* "conflict": StartRestore (the manager has the App's ConflictHandler) of a full
\*             backup of the directory a with the file a/x, into a directory that
\*             holds them already, with another content of a/x.
ConflictTree == [p \in Paths |-> IF p = "a" THEN DirNode ELSE FileNode(1)]
ExistingTree == [p \in Paths |-> IF p = "a" THEN DirNode ELSE FileNode(2)]

RsConflictCases ==
  {RsCase("conflict", <<DirRoot(ConflictTree)>>, EmptyTree, ord, FALSE, FALSE, Password,
          "none", ExistingTree) : ord \in {"asScanned", "reversed"}}

\* manager.ConflictHandler is set (StartRestore) or nil (Restore called directly).
HasHandler(c) == c.class = "conflict"

\* The resolutions the frontend sends; requests of one StartRestore.
Resolutions == {"overwrite", "keep_both", "skip"}
MaxConflicts == 1

RsCases ==
  RsFullCases \cup RsChainCases \cup RsCorruptCases \cup RsPasswordCases
    \cup RsCycleCases \cup RsMetaCases \cup RsConflictCases

\* The archive files of a cycle case, by name; each is an incremental backup of
\* the roots that names the given file as its parent.
CycleFiles(c) ==
  LET a(parent) == WriteLayers(incrEntries(c.roots, EmptyTree, parent, c.ord),
                               c.comp, c.enc, Password)
  IN IF c.class = "self" THEN <<a(1)>>
     ELSE IF c.class = "pair" THEN <<a(2), a(1)>>
     ELSE <<a(2), a(1), a(2)>>

\* The altered archive: the payload bytes of the first regular file, or its CRC.
Corrupt(entries, how) ==
  IF how = "none" THEN entries
  ELSE LET k == CHOOSE i \in DOMAIN entries :
                  /\ entries[i].kind = "file"
                  /\ \A j \in DOMAIN entries : entries[j].kind = "file" => i <= j
       IN IF how = "payload"
            THEN [entries EXCEPT ![k].v = (@ % MaxVer) + 1]
            ELSE [entries EXCEPT ![k].crc = (@ + 1) % 7]

\* The archive files of a case, by name: 1 is the (full) base, 2 the incremental.
RsFiles(c) ==
  LET base == WriteLayers(Corrupt(fullEntries(c.roots, c.ord), c.corrupt),
                          c.comp, c.enc, Password)
      incr == WriteLayers(incrEntries(<<DirRoot(c.next)>>, c.roots[1].tree, 1, c.ord),
                          c.comp, c.enc, Password)
  IN IF c.class = "chain" THEN <<base, incr>>
     ELSE IF c.class \in CycleClasses THEN CycleFiles(c)
     ELSE IF c.class = "meta"
       THEN <<WriteLayers(<<Head(fullEntries(c.roots, c.ord))>>
                            \o Permute(MetaEntries, c.ord)
                            \o Tail(fullEntries(c.roots, c.ord)),
                          c.comp, c.enc, Password)>>
     ELSE <<base>>

\* The backupFile argument of Restore: the last archive of the case.
RsTip(c) == Len(RsFiles(c))

\* The source tree the restored archive was taken of.
RsTipTree(c) == IF c.class = "chain" THEN c.next ELSE c.roots[1].tree

\* App as NewApp leaves it: conflictRequests empty, requestIDCounter 0.
NoConflicts ==
  [counter |-> 0, reqs |-> {}, chan |-> <<>>, waiting |-> [w \in RsWorkers |-> 0],
   returned |-> FALSE]

RsIdleProd == [pc |-> "idle", e |-> Entry(".", "dir", 0), err |-> ""]
RsIdleWorker == [pc |-> "idle", job |-> Entry(".", "dir", 0)]

InitRSVars ==
  /\ rsCase \in RsCases
  /\ rsPC = "resolve"
  /\ rsChain = <<>>
  /\ rsIdx = 0
  /\ rsEntries = <<>>
  /\ rsProd = RsIdleProd
  /\ rsJobsChan = <<>>
  /\ rsChanClosed = FALSE
  /\ rsPrClosed = FALSE
  /\ rsW = [w \in RsWorkers |-> RsIdleWorker]
  /\ rsErrChan = <<>>
  /\ rsDir = rsCase.dir0
  /\ rsCtxDone = FALSE
  /\ rsRet = "none"
  /\ rsG = [crcBad |-> FALSE, meta |-> {}, skipped |-> {}, kept |-> {}]
  /\ rsCf = NoConflicts

\* No restore call in the system.
RSParked ==
  /\ rsCase = RsCase("full", <<>>, EmptyTree, "asScanned", FALSE, FALSE, "", "none",
                     EmptyTree)
  /\ rsPC = "done"
  /\ rsChain = <<>>
  /\ rsIdx = 0
  /\ rsEntries = <<>>
  /\ rsProd = RsIdleProd
  /\ rsJobsChan = <<>>
  /\ rsChanClosed = FALSE
  /\ rsPrClosed = FALSE
  /\ rsW = [w \in RsWorkers |-> RsIdleWorker]
  /\ rsErrChan = <<>>
  /\ rsDir = EmptyTree
  /\ rsCtxDone = FALSE
  /\ rsRet = "parked"
  /\ rsG = [crcBad |-> FALSE, meta |-> {}, skipped |-> {}, kept |-> {}]
  /\ rsCf = NoConflicts

\* select { case errChan <- err: default: }
TrySend(ch, e) == IF Len(ch) < 1 THEN Append(ch, e) ELSE ch

\* The CRC comparison of runRestore left out.
crcMismatchIgnored(sum, expected) == FALSE

\* runRestore: if crcSum != expected
crcMismatch(sum, expected) == sum # expected

\* runRestore after wg.Wait(): producerErr, else ctx.Err(), else the error in errChan.
runRestoreResult(producerErr, ctxDone, errChan) ==
  IF producerErr # "" THEN producerErr
  ELSE IF ctxDone THEN "cancel"
  ELSE IF errChan # <<>> THEN Head(errChan)
  ELSE ""

\* restoreSingle: an error of runRestore is replaced by ctx.Err() once ctx is done.
restoreSingleResult(err, ctxDone) == IF err # "" /\ ctxDone THEN "cancel" ELSE err

\* Restore: resolveRestoreChain(backupFile, password)
RsResolve ==
  /\ RSOnly
  /\ rsPC = "resolve"
  /\ LET r == resolveRestoreChain(RsFiles(rsCase), RsTip(rsCase), rsCase.pwR) IN
       IF r.err # ""
         THEN rsRet' = r.err /\ rsPC' = "done" /\ UNCHANGED <<rsChain, rsIdx>>
         ELSE rsChain' = r.chain /\ rsIdx' = 1 /\ rsPC' = "loop" /\ UNCHANGED rsRet
  /\ UNCHANGED <<rsCf, rsCase, rsEntries, rsProd, rsJobsChan, rsChanClosed, rsPrClosed, rsW,
                 rsErrChan, rsDir, rsCtxDone, rsG>>

\* Restore, loop over the chain: ctx poll, then restoreSingle opens the archive and
\* runRestore starts its workers.
RsLoop ==
  /\ RSOnly
  /\ rsPC = "loop"
  /\ IF rsIdx > Len(rsChain)
       THEN /\ rsRet' = "nil" /\ rsPC' = "done"
            /\ UNCHANGED <<rsEntries, rsProd, rsW>>
     ELSE IF rsCtxDone
       THEN /\ rsRet' = "cancel" /\ rsPC' = "done"
            /\ UNCHANGED <<rsEntries, rsProd, rsW>>
     ELSE LET r == getReaderPipe(RsFiles(rsCase)[rsChain[rsIdx]], rsCase.pwR) IN
          IF r.err # ""
            THEN /\ rsRet' = r.err /\ rsPC' = "done"
                 /\ UNCHANGED <<rsEntries, rsProd, rsW>>
            ELSE /\ rsEntries' = r.stream.entries
                 /\ rsProd' = [RsIdleProd EXCEPT !.pc = "top"]
                 /\ rsW' = [w \in RsWorkers |-> [RsIdleWorker EXCEPT !.pc = "recv"]]
                 /\ rsPC' = "run"
                 /\ UNCHANGED rsRet
  /\ rsJobsChan' = <<>>
  /\ rsChanClosed' = FALSE
  /\ rsPrClosed' = FALSE
  /\ rsErrChan' = <<>>
  /\ UNCHANGED <<rsCf, rsCase, rsChain, rsIdx, rsDir, rsCtxDone, rsG>>

\* Producer, top of the loop: ctx poll, NextEntry, ctx poll; internal entries
\* (the manifest, and any other entry under .qbakmeta/) are consumed here. On return: deferred close(jobsChan).
RsProdNext ==
  /\ RSOnly
  /\ rsPC = "run"
  /\ rsProd.pc = "top"
  /\ IF rsCtxDone
       THEN /\ rsProd' = [rsProd EXCEPT !.pc = "done", !.err = "cancel"]
            /\ rsChanClosed' = TRUE
            /\ UNCHANGED rsEntries
     ELSE IF rsEntries = <<>>
       THEN /\ rsProd' = [rsProd EXCEPT !.pc = "done", !.err = ""]
            /\ rsChanClosed' = TRUE
            /\ UNCHANGED rsEntries
     ELSE /\ rsEntries' = Tail(rsEntries)
          /\ rsProd' = IF isInternalPath(Head(rsEntries).Path) THEN rsProd
                       ELSE [rsProd EXCEPT !.pc = "send", !.e = Head(rsEntries)]
          /\ UNCHANGED rsChanClosed
  /\ UNCHANGED <<rsCf, rsCase, rsPC, rsChain, rsIdx, rsJobsChan, rsPrClosed, rsW,
                 rsErrChan, rsDir, rsCtxDone, rsRet, rsG>>

\* Producer: jobsChan <- func() {...}; for a regular file a new pipe first.
RsProdSend ==
  /\ RSOnly
  /\ rsProd.pc = "send"
  /\ Len(rsJobsChan) < JobsChanCap
  /\ rsJobsChan' = Append(rsJobsChan, rsProd.e)
  /\ rsProd' = [rsProd EXCEPT !.pc = IF rsProd.e.kind = "file" THEN "copy" ELSE "top"]
  /\ rsPrClosed' = FALSE
  /\ UNCHANGED <<rsCf, rsCase, rsPC, rsChain, rsIdx, rsEntries, rsChanClosed, rsW,
                 rsErrChan, rsDir, rsCtxDone, rsRet, rsG>>

\* Producer: io.CopyBuffer into pw meets the worker's read of pr (into the file, into
\* the file under the new name, or into io.Discard after Skip); then the stored
\* CRC is compared, and pw is closed with the mismatch error or cleanly.
RsProdCopy(w) ==
  /\ RSOnly
  /\ rsProd.pc = "copy"
  /\ rsW[w].pc \in {"read", "readNew", "discard"}
  /\ rsDir' = IF rsProd.e.Path \in MetaPaths \/ rsW[w].pc # "read" THEN rsDir
                ELSE WriteContent(rsDir, rsProd.e.Path, rsProd.e.v)
  /\ rsG' = [rsG EXCEPT !.crcBad = @ \/ crc32Of(rsProd.e.v) # rsProd.e.crc]
  /\ IF crcMismatch(crc32Of(rsProd.e.v), rsProd.e.crc)
       THEN /\ rsProd' = [rsProd EXCEPT !.pc = "done", !.err = "crc32 mismatch"]
            /\ rsChanClosed' = TRUE
            /\ rsW' = [rsW EXCEPT ![w].pc = IF rsW[w].pc = "discard" THEN "drainSkip"
                                              ELSE "drainErr"]
       ELSE /\ rsProd' = [rsProd EXCEPT !.pc = "top"]
            /\ rsW' = [rsW EXCEPT ![w].pc = IF rsW[w].pc = "discard" THEN "drainSkip"
                                              ELSE "drainOk"]
            /\ UNCHANGED rsChanClosed
  /\ UNCHANGED <<rsCf, rsCase, rsPC, rsChain, rsIdx, rsEntries, rsJobsChan, rsPrClosed,
                 rsErrChan, rsCtxDone, rsRet>>

\* Producer: the write into pw fails because the worker closed pr.
RsProdCopyFail ==
  /\ RSOnly
  /\ rsProd.pc = "copy"
  /\ rsPrClosed
  /\ rsProd' = [rsProd EXCEPT !.pc = "done", !.err = "failed to copy data"]
  /\ rsChanClosed' = TRUE
  /\ UNCHANGED <<rsCf, rsCase, rsPC, rsChain, rsIdx, rsEntries, rsJobsChan, rsPrClosed, rsW,
                 rsErrChan, rsDir, rsCtxDone, rsRet, rsG>>

\* Worker: case task, ok := <-jobsChan with a job in the channel.
RsWorkerTake(w) ==
  /\ RSOnly
  /\ rsW[w].pc = "recv"
  /\ rsJobsChan # <<>>
  /\ rsW' = [rsW EXCEPT ![w] = [pc |-> "job", job |-> Head(rsJobsChan)]]
  /\ rsJobsChan' = Tail(rsJobsChan)
  /\ UNCHANGED <<rsCf, rsCase, rsPC, rsChain, rsIdx, rsEntries, rsProd, rsChanClosed,
                 rsPrClosed, rsErrChan, rsDir, rsCtxDone, rsRet, rsG>>

\* Worker: case <-m.ctx.Done(), or the closed and drained jobsChan: return.
RsWorkerExit(w) ==
  /\ RSOnly
  /\ rsW[w].pc = "recv"
  /\ rsCtxDone \/ (rsChanClosed /\ rsJobsChan = <<>>)
  /\ rsW' = [rsW EXCEPT ![w].pc = "exit"]
  /\ UNCHANGED <<rsCf, rsCase, rsPC, rsChain, rsIdx, rsEntries, rsProd, rsJobsChan,
                 rsChanClosed, rsPrClosed, rsErrChan, rsDir, rsCtxDone, rsRet, rsG>>

\* Worker: task(): the ctx poll of the closure, then RemoveAll, createDirOrLink, or
\* writeFileFromPipe up to its read of the pipe.
RsWorkerRun(w) ==
  /\ RSOnly
  /\ rsW[w].pc = "job"
  /\ LET j == rsW[w].job IN
       IF rsCtxDone
         THEN /\ rsW' = [rsW EXCEPT ![w].pc = "recv"]
              /\ rsPrClosed' = (rsPrClosed \/ j.kind = "file")
              /\ UNCHANGED <<rsDir, rsErrChan, rsG, rsCf>>
       ELSE IF j.Path \in MetaPaths
         THEN \* destPath is restoreDir/.qbakmeta or lies below it
              /\ rsG' = [rsG EXCEPT !.meta = IF j.kind = "del" THEN @ \ {j.Path}
                                              ELSE @ \cup {metaDirPath, j.Path}]
              /\ rsW' = [rsW EXCEPT ![w].pc = IF j.kind \in {"del", "dir"}
                                                THEN "recv" ELSE "read"]
              /\ UNCHANGED <<rsDir, rsPrClosed, rsErrChan, rsCf>>
       ELSE IF j.kind = "del"
         THEN /\ rsDir' = RemoveAll(rsDir, j.Path)
              /\ rsW' = [rsW EXCEPT ![w].pc = "recv"]
              /\ UNCHANGED <<rsPrClosed, rsErrChan, rsG, rsCf>>
       ELSE IF j.kind = "dir"
         THEN /\ rsW' = [rsW EXCEPT ![w].pc = "recv"]
              /\ IF MkdirAllErr(rsDir, j.Path)
                   THEN rsErrChan' = TrySend(rsErrChan, "failed to create directory")
                        /\ UNCHANGED rsDir
                   ELSE rsDir' = MkdirAll(rsDir, j.Path) /\ UNCHANGED rsErrChan
              /\ UNCHANGED <<rsPrClosed, rsG, rsCf>>
       ELSE IF HasHandler(rsCase) /\ rsDir[j.Path].t # "none"
         THEN \* os.Lstat(destPath) succeeds: m.ConflictHandler(destPath) up to its select
              /\ rsCf' = [rsCf EXCEPT !.counter = @ + 1,
                                      !.reqs = @ \cup {rsCf.counter + 1},
                                      !.chan = Append(@, "empty"),
                                      !.waiting[w] = rsCf.counter + 1]
              /\ rsW' = [rsW EXCEPT ![w].pc = "ask"]
              /\ UNCHANGED <<rsDir, rsPrClosed, rsErrChan, rsG>>
       ELSE IF CreateErr(rsDir, j.Path)
         THEN /\ rsW' = [rsW EXCEPT ![w].pc = "recv"]
              /\ rsPrClosed' = TRUE
              /\ rsErrChan' = TrySend(rsErrChan, "failed to create file")
              /\ UNCHANGED <<rsDir, rsG, rsCf>>
         ELSE /\ rsDir' = Create(rsDir, j.Path)
              /\ rsW' = [rsW EXCEPT ![w].pc = "read"]
              /\ UNCHANGED <<rsPrClosed, rsErrChan, rsG, rsCf>>
  /\ UNCHANGED <<rsCase, rsPC, rsChain, rsIdx, rsEntries, rsProd, rsJobsChan,
                 rsChanClosed, rsCtxDone, rsRet>>

\* ResolveConflict(requestID, resolution), called by the frontend: the action goes
\* into the response channel and the request leaves the map.
ResolveConflict(id, resolution) ==
  /\ RSOnly
  /\ id \in rsCf.reqs
  /\ rsCf' = [rsCf EXCEPT !.chan[id] = resolution, !.reqs = @ \ {id}]
  /\ UNCHANGED <<rsCase, rsPC, rsChain, rsIdx, rsEntries, rsProd, rsJobsChan, rsChanClosed,
                 rsPrClosed, rsW, rsErrChan, rsDir, rsCtxDone, rsRet, rsG>>

\* A Skip that returns without reading the pipe.
skipDrainsNot == FALSE

\* writeFileFromPipe, case ActionSkip: io.Copy(io.Discard, pr) before return nil
skipDrains == TRUE

\* Worker: the select of the ConflictHandler returns, with the context error or
\* with the action received; writeFileFromPipe goes on according to the action.
RsHandlerReturn(w, byCtx) ==
  /\ RSOnly
  /\ rsW[w].pc = "ask"
  /\ LET id == rsCf.waiting[w]
         p == rsW[w].job.Path
         \* a receive from the closed channel yields the zero value, ActionSkip
         action == IF rsCf.chan[id] = "closed" THEN "skip" ELSE rsCf.chan[id]
     IN /\ IF byCtx THEN rsCtxDone ELSE rsCf.chan[id] # "empty"
        /\ rsCf' = [rsCf EXCEPT !.waiting[w] = 0,
                                !.chan[id] = IF byCtx \/ @ = "closed" THEN @ ELSE "empty"]
        /\ IF byCtx
             THEN /\ rsW' = [rsW EXCEPT ![w].pc = "recv"]
                  /\ rsPrClosed' = TRUE
                  /\ rsErrChan' = TrySend(rsErrChan, "cancel")
                  /\ UNCHANGED <<rsDir, rsG>>
           ELSE IF action = "skip"
             THEN /\ rsW' = [rsW EXCEPT ![w].pc = IF skipDrains THEN "discard" ELSE "recv"]
                  /\ rsPrClosed' = IF skipDrains THEN rsPrClosed ELSE TRUE
                  /\ rsG' = [rsG EXCEPT !.skipped = @ \cup {p}]
                  /\ UNCHANGED <<rsDir, rsErrChan>>
           ELSE IF action = "keep_both"
             THEN /\ rsW' = [rsW EXCEPT ![w].pc = "readNew"]
                  /\ rsG' = [rsG EXCEPT !.kept = @ \cup {p}]
                  /\ UNCHANGED <<rsDir, rsPrClosed, rsErrChan>>
           ELSE IF CreateErr(rsDir, p)
             THEN /\ rsW' = [rsW EXCEPT ![w].pc = "recv"]
                  /\ rsPrClosed' = TRUE
                  /\ rsErrChan' = TrySend(rsErrChan, "failed to create file")
                  /\ UNCHANGED <<rsDir, rsG>>
             ELSE /\ rsDir' = Create(rsDir, p)
                  /\ rsW' = [rsW EXCEPT ![w].pc = "read"]
                  /\ UNCHANGED <<rsPrClosed, rsErrChan, rsG>>
  /\ UNCHANGED <<rsCase, rsPC, rsChain, rsIdx, rsEntries, rsProd, rsJobsChan,
                 rsChanClosed, rsCtxDone, rsRet>>

\* The exit cleanup that forgets to empty the map.
exitCleanupNone(cf) == [cf EXCEPT !.returned = TRUE]

\* StartRestore, deferred function: every request still in the map has its
\* channel closed and is deleted.
exitCleanup(cf) ==
  [cf EXCEPT !.returned = TRUE,
             !.reqs = {},
             !.chan = [id \in DOMAIN cf.chan |->
                         IF id \in cf.reqs THEN "closed" ELSE cf.chan[id]]]

\* StartRestore returns: manager.Restore has returned, the deferred cleanup runs.
StartRestoreReturn ==
  /\ RSOnly
  /\ HasHandler(rsCase)
  /\ rsPC = "done"
  /\ ~rsCf.returned
  /\ rsCf' = exitCleanup(rsCf)
  /\ UNCHANGED <<rsCase, rsPC, rsChain, rsIdx, rsEntries, rsProd, rsJobsChan, rsChanClosed,
                 rsPrClosed, rsW, rsErrChan, rsDir, rsCtxDone, rsRet, rsG>>

\* Worker: writeFileFromPipe after the data: the pipe ends cleanly, or with the
\* producer's error, which goes to errChan.
RsWorkerFinish(w) ==
  /\ RSOnly
  /\ rsW[w].pc \in {"drainOk", "drainErr", "drainSkip"}
  /\ rsErrChan' = IF rsW[w].pc = "drainErr"
                    THEN TrySend(rsErrChan, "failed to write data") ELSE rsErrChan
  /\ rsW' = [rsW EXCEPT ![w].pc = "recv"]
  /\ UNCHANGED <<rsCf, rsCase, rsPC, rsChain, rsIdx, rsEntries, rsProd, rsJobsChan,
                 rsChanClosed, rsPrClosed, rsDir, rsCtxDone, rsRet, rsG>>

\* runRestore after wg.Wait(), restoreSingle, and Restore's return on an error.
RsJoin ==
  /\ RSOnly
  /\ rsPC = "run"
  /\ rsProd.pc = "done"
  /\ \A w \in RsWorkers : rsW[w].pc = "exit"
  /\ LET err == restoreSingleResult(
                  runRestoreResult(rsProd.err, rsCtxDone, rsErrChan), rsCtxDone)
     IN IF err # ""
          THEN rsRet' = err /\ rsPC' = "done" /\ UNCHANGED rsIdx
          ELSE rsIdx' = rsIdx + 1 /\ rsPC' = "loop" /\ UNCHANGED rsRet
  /\ UNCHANGED <<rsCf, rsCase, rsChain, rsEntries, rsProd, rsJobsChan, rsChanClosed,
                 rsPrClosed, rsW, rsErrChan, rsDir, rsCtxDone, rsG>>

\* The context of the manager is cancelled (StopOperation).
RsCancel ==
  /\ RSOnly
  /\ rsRet = "none"
  /\ ~rsCtxDone
  /\ rsCtxDone' = TRUE
  /\ UNCHANGED <<rsCf, rsCase, rsPC, rsChain, rsIdx, rsEntries, rsProd, rsJobsChan,
                 rsChanClosed, rsPrClosed, rsW, rsErrChan, rsDir, rsRet, rsG>>

NextRS ==
  \/ RsResolve
  \/ RsLoop
  \/ RsProdNext
  \/ RsProdSend
  \/ \E w \in RsWorkers : RsProdCopy(w)
  \/ RsProdCopyFail
  \/ \E w \in RsWorkers : RsWorkerTake(w)
  \/ \E w \in RsWorkers : RsWorkerExit(w)
  \/ \E w \in RsWorkers : RsWorkerRun(w)
  \/ \E w \in RsWorkers : RsWorkerFinish(w)
  \/ RsJoin
  \/ RsCancel
  \/ \E id \in 1..MaxConflicts, res \in Resolutions : ResolveConflict(id, res)
  \/ \E w \in RsWorkers, byCtx \in BOOLEAN : RsHandlerReturn(w, byCtx)
  \/ StartRestoreReturn

(***************************************************************************)
(* ----- Chunk pipelines: huffmanWriter and parallelStreamWriter ---------- *)
(***************************************************************************)

\* Bounds of the pipeline model.
MaxChunks == 3       \* full chunks that Write submits before Close
PipeWorkers == 2     \* huffmanCompressionWorkers / workerCount (runtime.NumCPU())

PwWorkers == 1..PipeWorkers
\* jobs and results: make(chan ..., workers)
PipeChanCap == PipeWorkers

PwKinds == {"huff", "enc"}

\* pending[nextID] with no such key
NoId == 0 - 1

\* The runs: which writer, how many chunks the Write calls submit, whether Close
\* finds bytes in the buffer (huffmanWriter.Close flushes a final chunk always),
\* which chunk's write to the sink fails and which chunk's compression fails
\* (a failure is placed at one of the first chunks, or nowhere).
SinkFailIds == {NoId} \cup {0, 1}
CompFailIds == {NoId} \cup {1}

PwCfgs ==
  {c \in [kind : PwKinds, n : 0..MaxChunks, tail : BOOLEAN,
          sinkFailAt : SinkFailIds, compFailAt : CompFailIds] :
     /\ c.kind = "huff" => c.tail
     /\ c.kind = "enc" => c.compFailAt = NoId}

PwIdleWorker == [pc |-> "idle", id |-> NoId]
PwIdleAgg == [pc |-> "idle", pending |-> {}, next |-> 0]

\* NewCompressedWriter / newParallelStreamWriter: the goroutines are started.
InitPWVars ==
  /\ pwCfg \in PwCfgs
  /\ pwPC = "write"
  /\ pwNextID = 0
  /\ pwJobs = <<>>
  /\ pwJobsClosed = FALSE
  /\ pwResults = <<>>
  /\ pwResClosed = FALSE
  /\ pwW = [w \in PwWorkers |-> [PwIdleWorker EXCEPT !.pc = "recv"]]
  /\ pwAgg = [PwIdleAgg EXCEPT !.pc = "run"]
  /\ pwSink = <<>>
  /\ pwErr = ""
  /\ pwCtxDone = FALSE
  /\ pwRet = "none"
  /\ pwG = [outOfOrder |-> FALSE, late |-> <<>>]

\* No writer in the system.
PWParked ==
  /\ pwCfg = [kind |-> "huff", n |-> 0, tail |-> TRUE, sinkFailAt |-> NoId,
              compFailAt |-> NoId]
  /\ pwPC = "parked"
  /\ pwNextID = 0
  /\ pwJobs = <<>>
  /\ pwJobsClosed = FALSE
  /\ pwResults = <<>>
  /\ pwResClosed = FALSE
  /\ pwW = [w \in PwWorkers |-> PwIdleWorker]
  /\ pwAgg = PwIdleAgg
  /\ pwSink = <<>>
  /\ pwErr = ""
  /\ pwCtxDone = FALSE
  /\ pwRet = "parked"
  /\ pwG = [outOfOrder |-> FALSE, late |-> <<>>]

\* setError / setErr: the first error is kept.
setError(cur, e) == IF cur = "" THEN e ELSE cur

\* An aggregator that writes whatever chunk it holds, lowest id first.
WritableAny(pending, next) ==
  IF pending = {} THEN NoId ELSE CHOOSE i \in pending : \A j \in pending : i <= j

\* resultWriter / aggregator: data, ok := pending[nextID]
WritableId(pending, next) == IF next \in pending THEN next ELSE NoId

\* What the caller may read in hw.err / sw.getErr(): huffmanWriter reads hw.err
\* without synchronisation, so an error set by another goroutine may not be seen.
PwSeenErr ==
  IF pwErr = "" THEN {FALSE}
  ELSE IF pwCfg.kind = "huff" THEN {TRUE, FALSE}
  ELSE {TRUE}

\* Write: the error check at its start (flush: if hw.err != nil; Write: getErr(),
\* or the ctx.Done() case of its select) makes it return the error; the caller
\* then closes the writer.
PwWriteErr ==
  /\ PWOnly
  /\ pwPC = "write"
  /\ pwNextID < pwCfg.n
  /\ TRUE \in PwSeenErr
  /\ pwPC' = "close"
  /\ UNCHANGED <<pwCfg, pwNextID, pwJobs, pwJobsClosed, pwResults, pwResClosed, pwW,
                 pwAgg, pwSink, pwErr, pwCtxDone, pwRet, pwG>>

\* Write: a full chunk goes into jobs (hw.jobs <- huffmanJob{...}; case sw.jobs <- job{...}).
PwWriteSend ==
  /\ PWOnly
  /\ pwPC = "write"
  /\ pwNextID < pwCfg.n
  /\ Len(pwJobs) < PipeChanCap
  /\ pwJobs' = Append(pwJobs, pwNextID)
  /\ pwNextID' = pwNextID + 1
  /\ UNCHANGED <<pwCfg, pwPC, pwJobsClosed, pwResults, pwResClosed, pwW,
                 pwAgg, pwSink, pwErr, pwCtxDone, pwRet, pwG>>

\* The caller has written everything: it calls Close.
PwWriteEnd ==
  /\ PWOnly
  /\ pwPC = "write"
  /\ pwNextID = pwCfg.n
  /\ pwPC' = "close"
  /\ UNCHANGED <<pwCfg, pwNextID, pwJobs, pwJobsClosed, pwResults, pwResClosed, pwW,
                 pwAgg, pwSink, pwErr, pwCtxDone, pwRet, pwG>>

\* Close, first part: huffmanWriter: flush(true) returns hw.err or goes on to send
\* the final chunk; parallelStreamWriter: if len(sw.buffer) > 0 && sw.getErr() == nil.
PwCloseBegin ==
  /\ PWOnly
  /\ pwPC = "close"
  /\ \E seen \in PwSeenErr :
       pwPC' = IF ~seen /\ pwCfg.tail THEN "closeSend" ELSE "closeJobs"
  /\ UNCHANGED <<pwCfg, pwNextID, pwJobs, pwJobsClosed, pwResults, pwResClosed, pwW,
                 pwAgg, pwSink, pwErr, pwCtxDone, pwRet, pwG>>

\* Close: the send of the final chunk, a plain blocking send in both writers.
PwCloseSend ==
  /\ PWOnly
  /\ pwPC = "closeSend"
  /\ Len(pwJobs) < PipeChanCap
  /\ pwJobs' = Append(pwJobs, pwNextID)
  /\ pwNextID' = pwNextID + 1
  /\ pwPC' = "closeJobs"
  /\ UNCHANGED <<pwCfg, pwJobsClosed, pwResults, pwResClosed, pwW,
                 pwAgg, pwSink, pwErr, pwCtxDone, pwRet, pwG>>

\* Close: close(jobs), then wg.Wait().
PwCloseJobs ==
  /\ PWOnly
  /\ pwPC = "closeJobs"
  /\ pwJobsClosed' = TRUE
  /\ pwPC' = "waitWorkers"
  /\ UNCHANGED <<pwCfg, pwNextID, pwJobs, pwResults, pwResClosed, pwW,
                 pwAgg, pwSink, pwErr, pwCtxDone, pwRet, pwG>>

\* Close: wg.Wait() returns; close(results), then writerWg.Wait() / aggregatorWg.Wait().
PwWorkersDone ==
  /\ PWOnly
  /\ pwPC = "waitWorkers"
  /\ \A w \in PwWorkers : pwW[w].pc = "exit"
  /\ pwResClosed' = TRUE
  /\ pwPC' = "waitAgg"
  /\ UNCHANGED <<pwCfg, pwNextID, pwJobs, pwJobsClosed, pwResults, pwW,
                 pwAgg, pwSink, pwErr, pwCtxDone, pwRet, pwG>>

\* Close: the aggregator has returned; sw.cancel() (parallelStreamWriter), the
\* underlying writer is closed, the recorded error is returned.
PwCloseReturn ==
  /\ PWOnly
  /\ pwPC = "waitAgg"
  /\ pwAgg.pc = "exit"
  /\ pwCtxDone' = (pwCtxDone \/ pwCfg.kind = "enc")
  /\ pwRet' = IF pwErr = "" THEN "nil" ELSE pwErr
  /\ pwPC' = "done"
  /\ UNCHANGED <<pwCfg, pwNextID, pwJobs, pwJobsClosed, pwResults, pwResClosed, pwW,
                 pwAgg, pwSink, pwErr, pwG>>

\* Worker: a job is received and compressed / encrypted; compressChunk may fail
\* (hw.setError, then the error result is sent and the worker returns).
PwWorkerTake(w) ==
  /\ PWOnly
  /\ pwW[w].pc = "recv"
  /\ pwJobs # <<>>
  /\ pwJobs' = Tail(pwJobs)
  /\ IF Head(pwJobs) = pwCfg.compFailAt
       THEN /\ pwW' = [pwW EXCEPT ![w] = [pc |-> "sendErr", id |-> Head(pwJobs)]]
            /\ pwErr' = setError(pwErr, "compress")
       ELSE /\ pwW' = [pwW EXCEPT ![w] = [pc |-> "send", id |-> Head(pwJobs)]]
            /\ UNCHANGED pwErr
  /\ UNCHANGED <<pwCfg, pwPC, pwNextID, pwJobsClosed, pwResults, pwResClosed,
                 pwAgg, pwSink, pwCtxDone, pwRet, pwG>>

\* Worker: results <- result
PwWorkerSend(w) ==
  /\ PWOnly
  /\ pwW[w].pc \in {"send", "sendErr"}
  /\ Len(pwResults) < PipeChanCap
  /\ pwResults' = Append(pwResults, [id |-> pwW[w].id, err |-> pwW[w].pc = "sendErr"])
  /\ pwW' = [pwW EXCEPT ![w] = [pc |-> IF pwW[w].pc = "sendErr" THEN "exit" ELSE "recv",
                                id |-> NoId]]
  /\ UNCHANGED <<pwCfg, pwPC, pwNextID, pwJobs, pwJobsClosed, pwResClosed,
                 pwAgg, pwSink, pwErr, pwCtxDone, pwRet, pwG>>

\* Worker returns: jobs closed and drained; in parallelStreamWriter also on
\* <-sw.ctx.Done(), at the receive or at the send.
PwWorkerExit(w) ==
  /\ PWOnly
  /\ \/ pwW[w].pc = "recv" /\ pwJobsClosed /\ pwJobs = <<>>
     \/ pwCfg.kind = "enc" /\ pwCtxDone /\ pwW[w].pc \in {"recv", "send"}
  /\ pwW' = [pwW EXCEPT ![w] = [pc |-> "exit", id |-> NoId]]
  /\ UNCHANGED <<pwCfg, pwPC, pwNextID, pwJobs, pwJobsClosed, pwResults, pwResClosed,
                 pwAgg, pwSink, pwErr, pwCtxDone, pwRet, pwG>>

\* resultWriter / aggregator: a result is received; an error result is recorded and
\* skipped, a chunk is stored under its id.
PwAggRecv ==
  /\ PWOnly
  /\ pwAgg.pc = "run"
  /\ pwResults # <<>>
  /\ pwResults' = Tail(pwResults)
  /\ LET r == Head(pwResults) IN
       IF r.err
         THEN /\ pwErr' = setError(pwErr, "compress")
              /\ UNCHANGED <<pwAgg, pwG>>
         ELSE /\ pwAgg' = [pwAgg EXCEPT !.pc = "drain", !.pending = @ \cup {r.id}]
              /\ pwG' = [pwG EXCEPT !.outOfOrder = @ \/ r.id # pwAgg.next]
              /\ UNCHANGED pwErr
  /\ UNCHANGED <<pwCfg, pwPC, pwNextID, pwJobs, pwJobsClosed, pwResClosed, pwW,
                 pwSink, pwCtxDone, pwRet>>

\* resultWriter / aggregator, inner loop: the chunk with the next id, if held, is
\* written to the sink; a failed write records the error and ends the goroutine
\* (setErr of parallelStreamWriter also cancels sw.ctx).
PwAggWrite ==
  /\ PWOnly
  /\ pwAgg.pc = "drain"
  /\ LET id == WritableId(pwAgg.pending, pwAgg.next) IN
       IF id = NoId
         THEN /\ pwAgg' = [pwAgg EXCEPT !.pc = "run"]
              /\ UNCHANGED <<pwSink, pwErr, pwCtxDone>>
       ELSE IF id = pwCfg.sinkFailAt
         THEN /\ pwAgg' = [pwAgg EXCEPT !.pc = "exit"]
              /\ pwErr' = setError(pwErr, "sink")
              /\ pwCtxDone' = (pwCtxDone \/ pwCfg.kind = "enc")
              /\ UNCHANGED pwSink
         ELSE /\ pwSink' = Append(pwSink, id)
              /\ pwAgg' = [pwAgg EXCEPT !.pending = @ \ {id}, !.next = @ + 1]
              /\ UNCHANGED <<pwErr, pwCtxDone>>
  /\ UNCHANGED <<pwCfg, pwPC, pwNextID, pwJobs, pwJobsClosed, pwResults, pwResClosed,
                 pwW, pwRet, pwG>>

\* resultWriter / aggregator returns: results closed and drained; in
\* parallelStreamWriter also on <-sw.ctx.Done().
PwAggExit ==
  /\ PWOnly
  /\ pwAgg.pc = "run"
  /\ \/ pwResClosed /\ pwResults = <<>>
     \/ pwCfg.kind = "enc" /\ pwCtxDone
  /\ pwAgg' = [pwAgg EXCEPT !.pc = "exit"]
  /\ UNCHANGED <<pwCfg, pwPC, pwNextID, pwJobs, pwJobsClosed, pwResults, pwResClosed,
                 pwW, pwSink, pwErr, pwCtxDone, pwRet, pwG>>

\* Bound: the calls made on the writer after its first Close has returned.
MaxLateCalls == 2

\* A Write that goes past the closed check: the bytes are buffered.
WriteOnClosedBuffers(err) ==
  [n |-> 1, ret |-> "nil", err |-> err, buffered |-> 1]

\* huffmanWriter.Write, if hw.closed.Load(): hw.setError(ErrWriterClosed);
\* return 0, ErrWriterClosed. Nothing is put into hw.buffer or hw.jobs.
WriteOnClosed(err) ==
  [n |-> 0, ret |-> "WriterClosed", err |-> setError(err, "WriterClosed"),
   buffered |-> 0]

\* huffmanWriter.Close, if !hw.closed.CompareAndSwap(false, true): return hw.err
CloseOnClosed(err) == IF err = "" THEN "nil" ELSE err

\* Write after Close has returned.
PwWriteAfterClose ==
  /\ PWOnly
  /\ pwPC = "done"
  /\ pwCfg.kind = "huff"
  /\ Len(pwG.late) < MaxLateCalls
  /\ LET r == WriteOnClosed(pwErr) IN
       /\ pwErr' = r.err
       /\ pwG' = [pwG EXCEPT !.late = Append(@, [op |-> "Write", n |-> r.n,
                                                  ret |-> r.ret,
                                                  buffered |-> r.buffered,
                                                  sink |-> pwSink])]
  /\ UNCHANGED <<pwCfg, pwPC, pwNextID, pwJobs, pwJobsClosed, pwResults, pwResClosed,
                 pwW, pwAgg, pwSink, pwCtxDone, pwRet>>

\* Close after Close has returned.
PwCloseAgain ==
  /\ PWOnly
  /\ pwPC = "done"
  /\ pwCfg.kind = "huff"
  /\ Len(pwG.late) < MaxLateCalls
  /\ pwG' = [pwG EXCEPT !.late = Append(@, [op |-> "Close", n |-> 0,
                                             ret |-> CloseOnClosed(pwErr),
                                             buffered |-> 0,
                                             sink |-> pwSink])]
  /\ UNCHANGED <<pwCfg, pwPC, pwNextID, pwJobs, pwJobsClosed, pwResults, pwResClosed,
                 pwW, pwAgg, pwSink, pwErr, pwCtxDone, pwRet>>

NextPW ==
  \/ PwWriteErr
  \/ PwWriteSend
  \/ PwWriteEnd
  \/ PwCloseBegin
  \/ PwCloseSend
  \/ PwCloseJobs
  \/ PwWorkersDone
  \/ PwCloseReturn
  \/ \E w \in PwWorkers : PwWorkerTake(w)
  \/ \E w \in PwWorkers : PwWorkerSend(w)
  \/ \E w \in PwWorkers : PwWorkerExit(w)
  \/ PwAggRecv
  \/ PwAggWrite
  \/ PwAggExit
  \/ PwWriteAfterClose
  \/ PwCloseAgain

(***************************************************************************)
(* ------- Backup workers inside archiveMutex / WriteEntry ---------------- *)
(***************************************************************************)

MaxEntries == 3      \* jobs of the call

MxJobIds == 1..MaxEntries

\* WriteEntry: header length, header JSON, payload, CRC32 (the last two for a
\* regular file with content only).
PartsOf(kind) ==
  IF kind = "file" THEN <<"len", "hdr", "data", "crc">> ELSE <<"len", "hdr">>

\* The jobs of a call: regular files only, or files and directories in turn.
MxKindChoices ==
  {[j \in MxJobIds |-> "file"],
   [j \in MxJobIds |-> IF j % 2 = 1 THEN "file" ELSE "dir"]}

MxIdleWorker == [pc |-> "idle", job |-> 0, part |-> 0]

\* Backup after the manifest is written: the workers wait on pathsChan.
InitMXVars ==
  /\ mxKinds \in MxKindChoices
  /\ mxNext = 1
  /\ mxW = [w \in BkWorkers |-> [MxIdleWorker EXCEPT !.pc = "recv"]]
  /\ mxHolder = 0
  /\ mxStream = <<>>

\* No backup workers in the system.
MXParked ==
  /\ mxKinds = [j \in MxJobIds |-> "dir"]
  /\ mxNext = 0
  /\ mxW = [w \in BkWorkers |-> MxIdleWorker]
  /\ mxHolder = 0
  /\ mxStream = <<>>

\* A mutex that never makes a caller wait.
MutexFreeAlways(holder) == TRUE

\* archiveMutex.Lock() returns only while no goroutine holds the mutex.
MutexFree(holder) == holder = 0

\* The producer's send meets the worker's receive; Lstat and Open follow.
MxHand(w) ==
  /\ MXOnly
  /\ mxNext \in MxJobIds
  /\ mxW[w].pc = "recv"
  /\ mxW' = [mxW EXCEPT ![w] = [pc |-> "lock", job |-> mxNext, part |-> 1]]
  /\ mxNext' = mxNext + 1
  /\ UNCHANGED <<mxKinds, mxHolder, mxStream>>

\* archiveMutex.Lock()
MxLock(w) ==
  /\ MXOnly
  /\ mxW[w].pc = "lock"
  /\ MutexFree(mxHolder)
  /\ mxHolder' = w
  /\ mxW' = [mxW EXCEPT ![w].pc = "write"]
  /\ UNCHANGED <<mxKinds, mxNext, mxStream>>

\* WriteEntry: the next piece of the entry is written to aw.w; after the last
\* piece WriteEntry returns.
MxWritePiece(w) ==
  /\ MXOnly
  /\ mxW[w].pc = "write"
  /\ LET parts == PartsOf(mxKinds[mxW[w].job]) IN
       /\ mxStream' = Append(mxStream, [job |-> mxW[w].job, part |-> parts[mxW[w].part]])
       /\ mxW' = [mxW EXCEPT ![w].part = @ + 1,
                             ![w].pc = IF mxW[w].part = Len(parts) THEN "unlock" ELSE "write"]
  /\ UNCHANGED <<mxKinds, mxNext, mxHolder>>

\* WriteEntry: a write or a read of the file fails; WriteEntry returns the error
\* with the entry unfinished.
MxWriteFail(w) ==
  /\ MXOnly
  /\ mxW[w].pc = "write"
  /\ mxW' = [mxW EXCEPT ![w].pc = "unlock"]
  /\ UNCHANGED <<mxKinds, mxNext, mxHolder, mxStream>>

\* archiveMutex.Unlock(); the worker goes back to its receive.
MxUnlock(w) ==
  /\ MXOnly
  /\ mxW[w].pc = "unlock"
  /\ mxHolder' = 0
  /\ mxW' = [mxW EXCEPT ![w] = [MxIdleWorker EXCEPT !.pc = "recv"]]
  /\ UNCHANGED <<mxKinds, mxNext, mxStream>>

\* The range over the closed pathsChan ends.
MxWorkerExit(w) ==
  /\ MXOnly
  /\ mxW[w].pc = "recv"
  /\ mxNext = MaxEntries + 1
  /\ mxW' = [mxW EXCEPT ![w].pc = "exit"]
  /\ UNCHANGED <<mxKinds, mxNext, mxHolder, mxStream>>

NextMX ==
  \/ \E w \in BkWorkers : MxHand(w)
  \/ \E w \in BkWorkers : MxLock(w)
  \/ \E w \in BkWorkers : MxWritePiece(w)
  \/ \E w \in BkWorkers : MxWriteFail(w)
  \/ \E w \in BkWorkers : MxUnlock(w)
  \/ \E w \in BkWorkers : MxWorkerExit(w)

(***************************************************************************)
(* ------------- BackupIncremental: the diff against the parent ----------- *)
(***************************************************************************)

DfPaths == {"a", "a/x"}
Perms == {"rw", "ro"}
LinkDests == {"t1", "t2"}

\* The ManifestFiles a scan can produce for the path a: a regular file, a
\* directory or a symlink; for a/x: a regular file.
DfFilesOf(p) ==
  IF p = "a"
    THEN {ManifestFileOf(p, "file", perm, mt, sz, "") :
            perm \in Perms, mt \in 1..MaxVer, sz \in 1..MaxVer}
         \cup {ManifestFileOf(p, "dir", perm, mt, 0, "") : perm \in Perms, mt \in 1..MaxVer}
         \cup {ManifestFileOf(p, "link", "rw", 1, 0, d) : d \in LinkDests}
    ELSE {ManifestFileOf(p, "file", "rw", 1, 1, "")}

\* manifestFilesToMap of a file list: a map keyed by path.
DfMaps ==
  {m \in UNION {[ps -> UNION {DfFilesOf(p) : p \in ps}] : ps \in SUBSET DfPaths} :
     \A p \in DOMAIN m : m[p] \in DfFilesOf(p)}

NoDiff == [changedPaths |-> <<>>, deletedPaths |-> <<>>, ret |-> "none"]

InitDFVars ==
  /\ dfCur \in DfMaps
  /\ dfPar \in DfMaps
  /\ dfPC = "parent"
  /\ dfTodo = DOMAIN dfPar
  /\ dfChanged = {}
  /\ dfDeleted = {}
  /\ dfOut = NoDiff

DFParked ==
  /\ dfCur = << >>
  /\ dfPar = << >>
  /\ dfPC = "idle"
  /\ dfTodo = {}
  /\ dfChanged = {}
  /\ dfDeleted = {}
  /\ dfOut = NoDiff

\* for path := range parentMap: one iteration.
DfParentStep(p) ==
  /\ DFOnly
  /\ dfPC = "parent"
  /\ p \in dfTodo
  /\ dfTodo' = dfTodo \ {p}
  /\ dfDeleted' = IF p \notin DOMAIN dfCur THEN dfDeleted \cup {p} ELSE dfDeleted
  /\ UNCHANGED <<dfCur, dfPar, dfPC, dfChanged, dfOut>>

\* The first loop ends; the second one starts.
DfParentDone ==
  /\ DFOnly
  /\ dfPC = "parent"
  /\ dfTodo = {}
  /\ dfPC' = "current"
  /\ dfTodo' = DOMAIN dfCur
  /\ UNCHANGED <<dfCur, dfPar, dfChanged, dfDeleted, dfOut>>

\* for path, cur := range currentMap: one iteration.
DfCurrentStep(p) ==
  /\ DFOnly
  /\ dfPC = "current"
  /\ p \in dfTodo
  /\ dfTodo' = dfTodo \ {p}
  /\ IF p \notin DOMAIN dfPar
       THEN /\ dfChanged' = dfChanged \cup {p}
            /\ UNCHANGED dfDeleted
       ELSE IF ~equalForDiff(dfCur[p], dfPar[p])
         THEN /\ dfChanged' = dfChanged \cup {p}
              /\ dfDeleted' = IF typeChanged(dfCur[p], dfPar[p])
                                THEN dfDeleted \cup {p} ELSE dfDeleted
         ELSE UNCHANGED <<dfChanged, dfDeleted>>
  /\ UNCHANGED <<dfCur, dfPar, dfPC, dfOut>>

DfCurrentDone ==
  /\ DFOnly
  /\ dfPC = "current"
  /\ dfTodo = {}
  /\ dfPC' = "sort"
  /\ UNCHANGED <<dfCur, dfPar, dfTodo, dfChanged, dfDeleted, dfOut>>

\* changedPaths and deletedPaths sorted; ErrNoChanges when both are empty.
DfSort ==
  /\ DFOnly
  /\ dfPC = "sort"
  /\ dfPC' = "done"
  /\ dfOut' = [changedPaths |-> sortStrings(dfChanged),
               deletedPaths |-> sortStrings(dfDeleted),
               ret |-> IF dfChanged = {} /\ dfDeleted = {} THEN "ErrNoChanges" ELSE "go on"]
  /\ UNCHANGED <<dfCur, dfPar, dfTodo, dfChanged, dfDeleted>>

NextDF ==
  \/ \E p \in DfPaths : DfParentStep(p)
  \/ DfParentDone
  \/ \E p \in DfPaths : DfCurrentStep(p)
  \/ DfCurrentDone
  \/ DfSort

(***************************************************************************)
(* ------ Huffman codec: compressChunk, decompressChunk, the stream ------- *)
(***************************************************************************)

\* Bounds of the codec model.
MaxByte == 2             \* the byte values are 0..MaxByte
huffmanChunkSize == 3    \* bytes per chunk (256 * 1024 in the source)
MaxLen == 4              \* longest input: one full chunk and a tail

maxHuffmanChunkLen == 4194304
maxHuffmanHeaderLen == 4096

\* Sizes of the fixed-width fields: uint64 originalLen, uint32 headerLen,
\* uint16 entry count, one table entry (a byte and a uint64).
originalLenBytes == 8
headerLenBytes == 4
numEntriesBytes == 2
tableEntryBytes == 9

Bytes == 0..MaxByte
HfInputs == UNION {[1..n -> Bytes] : n \in 0..MaxLen}

Minimum(a, b) == IF a <= b THEN a ELSE b
Elems(q) == {q[i] : i \in 1..Len(q)}

\* huffmanNode. kids is <<>> for a leaf (left == nil && right == nil), <<left>>
\* for the root of a one-symbol tree, <<left, right>> otherwise.
huffmanNode(char, freq, minChar, kids) ==
  [char |-> char, freq |-> freq, minChar |-> minChar, kids |-> kids]

\* A comparison on the frequency alone.
LessByFreq(a, b) == a.freq < b.freq

\* nodeQueue.Less
Less(a, b) ==
  \/ a.freq < b.freq
  \/ a.freq = b.freq /\ a.minChar < b.minChar

\* freqTable[b]++ for every byte of data
buildFrequencyTable(data) ==
  [b \in Elems(data) |-> Cardinality({i \in 1..Len(data) : data[i] = b})]

\* The orders in which the elements of S may stand in a slice: the iteration
\* order of a map is not specified.
Orderings(S) ==
  {q \in [1..Cardinality(S) -> S] : \A i, j \in 1..Cardinality(S) : i # j => q[i] # q[j]}

\* sort.Sort(pq) is not stable: any arrangement in which no element is Less than
\* one that stands before it.
SortOutcomes(pq) ==
  {s \in Orderings(Elems(pq)) : \A i, j \in 1..Len(s) : i < j => ~Less(s[j], s[i])}

\* buildHuffmanTree, the loop for len(pq) > 1: the trees it can return.
RECURSIVE mergeQueue(_)
mergeQueue(pq) ==
  IF Len(pq) <= 1 THEN {pq[1]}
  ELSE UNION {mergeQueue(Append(SubSeq(s, 3, Len(s)),
                                huffmanNode(0, s[1].freq + s[2].freq, s[1].minChar,
                                            <<s[1], s[2]>>))) :
              s \in SortOutcomes(pq)}

\* buildHuffmanTree: the set of trees it can return; {} stands for nil.
buildHuffmanTree(freqTable) ==
  LET leaves == {huffmanNode(c, freqTable[c], c, <<>>) : c \in DOMAIN freqTable} IN
    IF leaves = {} THEN {}
    ELSE IF Cardinality(leaves) = 1
      THEN {huffmanNode(0, l.freq, l.minChar, <<l>>) : l \in leaves}
    ELSE UNION {mergeQueue(pq) : pq \in Orderings(leaves)}

\* generateCodes: the pairs <<char, code>>, a code being a sequence of bits.
RECURSIVE generateCodes(_, _)
generateCodes(node, prefix) ==
  IF Len(node.kids) = 0
    THEN {<<node.char, IF prefix = <<>> THEN <<0>> ELSE prefix>>}
    ELSE generateCodes(node.kids[1], Append(prefix, 0))
         \cup (IF Len(node.kids) = 2
                 THEN generateCodes(node.kids[2], Append(prefix, 1)) ELSE {})

\* codes[b]
CodeOf(codes, b) == (CHOOSE p \in codes : p[1] = b)[2]

\* The keys in ascending order.
RECURSIVE sortKeys(_)
sortKeys(S) ==
  IF S = {} THEN <<>>
  ELSE LET m == CHOOSE x \in S : \A y \in S : x <= y IN <<m>> \o sortKeys(S \ {m})

\* serializeFreqTable: the entries <<char, freq>> by ascending char; the count
\* in front is the length of the sequence.
serializeFreqTable(freqTable) ==
  LET keys == sortKeys(DOMAIN freqTable) IN
    [i \in 1..Len(keys) |-> <<keys[i], freqTable[keys[i]]>>]

\* deserializeFreqTable: freqTable[char] = freq for every entry, in order.
deserializeFreqTable(table) ==
  [c \in {table[i][1] : i \in 1..Len(table)} |->
     LET last == CHOOSE i \in 1..Len(table) :
                   /\ table[i][1] = c
                   /\ \A j \in 1..Len(table) : table[j][1] = c => j <= i
     IN table[last][2]]

\* A Flush that drops the bits of the last, incomplete byte.
bitWriterFlushNone(bits) == SubSeq(bits, 1, Len(bits) - (Len(bits) % 8))

\* bitWriter.WriteBit / Flush: bits are packed from the high end of a byte, the
\* last byte is written with its low bits zero.
bitWriterFlush(bits) == bits \o [i \in 1..((8 - (Len(bits) % 8)) % 8) |-> 0]

\* for _, b := range originalData: the bits of codes[b]
RECURSIVE encodeBits(_, _)
encodeBits(data, codes) ==
  IF data = <<>> THEN <<>>
  ELSE CodeOf(codes, Head(data)) \o encodeBits(Tail(data), codes)

\* The bytes of a chunk, field by field; empty stands for []byte{}.
EmptyChunk ==
  [empty |-> TRUE, origLen |-> 0, headerLen |-> 0, table |-> <<>>, bits |-> <<>>]

\* len(data) of a compressed chunk
ChunkLen(d) ==
  IF d.empty THEN 0
  ELSE originalLenBytes + headerLenBytes + d.headerLen + (Len(d.bits) \div 8)

\* compressChunk: what it can return for originalData.
compressChunk(originalData) ==
  IF Len(originalData) = 0 THEN {EmptyChunk}
  ELSE LET freqTable == buildFrequencyTable(originalData)
           table == serializeFreqTable(freqTable)
       IN {[empty |-> FALSE,
            origLen |-> Len(originalData),
            headerLen |-> numEntriesBytes + tableEntryBytes * Len(table),
            table |-> table,
            bits |-> bitWriterFlush(encodeBits(originalData, generateCodes(tree, <<>>)))] :
           tree \in buildHuffmanTree(freqTable)}

\* decompressChunk, the loop over originalLen symbols: bits are read while the
\* node is not a leaf.
RECURSIVE decodeFrom(_, _, _, _, _)
decodeFrom(root, node, bits, remaining, out) ==
  IF remaining = 0 THEN [data |-> out, err |-> ""]
  ELSE IF Len(node.kids) = 0
    THEN decodeFrom(root, root, bits, remaining - 1, Append(out, node.char))
  ELSE IF bits = <<>> THEN [data |-> <<>>, err |-> "unexpected EOF"]
  ELSE IF Head(bits) = 1
    THEN IF Len(node.kids) < 2
           THEN [data |-> <<>>, err |-> "invalid huffman code in chunk"]
           ELSE decodeFrom(root, node.kids[2], Tail(bits), remaining, out)
  ELSE decodeFrom(root, node.kids[1], Tail(bits), remaining, out)

\* decompressChunk: what it can return for the bytes of a chunk.
decompressChunk(d) ==
  IF d.empty THEN {[data |-> <<>>, err |-> "EOF"]}
  ELSE IF d.origLen = 0 THEN {[data |-> <<>>, err |-> ""]}
  ELSE IF d.origLen > huffmanChunkSize
    THEN {[data |-> <<>>, err |-> "invalid huffman original length"]}
  ELSE IF d.headerLen = 0 \/ d.headerLen > maxHuffmanHeaderLen
    THEN {[data |-> <<>>, err |-> "invalid huffman header length"]}
  ELSE LET trees == buildHuffmanTree(deserializeFreqTable(d.table)) IN
    IF trees = {}
      THEN {[data |-> <<>>, err |-> "failed to build huffman tree from chunk"]}
      ELSE {decodeFrom(t, t, d.bits, d.origLen, <<>>) : t \in trees}

\* huffmanWriter.Write, the loop over p: a full buffer is flushed when more
\* bytes arrive.
RECURSIVE writeLoop(_, _, _)
writeLoop(buffer, p, jobs) ==
  IF p = <<>> THEN [buffer |-> buffer, jobs |-> jobs]
  ELSE IF Len(buffer) = huffmanChunkSize
    THEN writeLoop(<<>>, p, Append(jobs, buffer))
  ELSE LET n == Minimum(Len(p), huffmanChunkSize - Len(buffer)) IN
         writeLoop(buffer \o SubSeq(p, 1, n), SubSeq(p, n + 1, Len(p)), jobs)

\* The jobs of Write(data) followed by Close(): flush(true) sends the buffer,
\* empty or not.
writtenJobs(data) ==
  LET w == writeLoop(<<>>, data, <<>>) IN Append(w.jobs, w.buffer)

\* resultWriter: chunkMagic, the length, the bytes. present is the number of
\* bytes of the chunk that the stream holds.
ChunkRecord(d) ==
  [magic |-> "HCHK", len |-> ChunkLen(d), present |-> ChunkLen(d), data |-> d]

\* The streams that Write(data), Close() can leave in the sink: huffmanMagic,
\* then the chunks by ascending id.
compressedStreams(data) ==
  LET jobs == writtenJobs(data)
      all == UNION {compressChunk(jobs[i]) : i \in 1..Len(jobs)}
  IN {[magic |-> "HUFF", chunks |-> [i \in 1..Len(jobs) |-> ChunkRecord(cs[i])]] :
      cs \in {q \in [1..Len(jobs) -> all] :
                \A i \in 1..Len(jobs) : q[i] \in compressChunk(jobs[i])}}

(***************************************************************************)
(* ---- NewParallelCompressedReader: producer, workers, aggregator -------- *)
(***************************************************************************)

HfWorkers == 1..PipeWorkers     \* huffmanDecompressionWorkers (runtime.NumCPU())

NoStream == [magic |-> "", chunks |-> <<>>]
NoCorruption == [kind |-> "none", k |-> 0, cut |-> 0]
NoResult == [id |-> 0, data |-> <<>>, err |-> ""]
HfIdleProd == [pc |-> "idle", pos |-> 1, nextID |-> 0]
HfIdleWorker == [pc |-> "idle", res |-> NoResult]
HfIdleAgg == [pc |-> "idle", buffer |-> {}, next |-> 0]
HfNoPipe == [data |-> <<>>, closed |-> FALSE, err |-> ""]

\* The damage done to one chunk of a stream: another chunk magic, a length
\* above maxHuffmanChunkLen, a body of which only cut bytes are there (the
\* stream ends in it), a set bit where the tree of a one-symbol chunk has no
\* right child.
Corruptions(stream) ==
  LET n == Len(stream.chunks) IN
    {[kind |-> "magic", k |-> k, cut |-> 0] : k \in 1..n}
    \cup {[kind |-> "tooLarge", k |-> k, cut |-> 0] : k \in 1..n}
    \cup {[kind |-> "short", k |-> k, cut |-> cut] :
            k \in {i \in 1..n : stream.chunks[i].len > 0}, cut \in {0, 1}}
    \cup {[kind |-> "offTree", k |-> k, cut |-> 0] :
            k \in {i \in 1..n : Len(stream.chunks[i].data.table) = 1}}

Damaged(stream, c) ==
  CASE c.kind = "none" -> stream
    [] c.kind = "magic" -> [stream EXCEPT !.chunks[c.k].magic = "XCHK"]
    [] c.kind = "tooLarge" ->
         [stream EXCEPT !.chunks[c.k].len = maxHuffmanChunkLen + 1]
    [] c.kind = "short" ->
         [stream EXCEPT !.chunks =
            [i \in 1..c.k |-> IF i = c.k THEN [@[i] EXCEPT !.present = c.cut]
                              ELSE @[i]]]
    [] c.kind = "offTree" -> [stream EXCEPT !.chunks[c.k].data.bits[1] = 1]

\* A producer for which a stream that ends right after a chunk header is a
\* normal end.
readChunkEOFEnds(stream, pos) ==
  IF pos > Len(stream.chunks) THEN [act |-> "return", err |-> ""]
  ELSE LET c == stream.chunks[pos] IN
    IF c.magic # "HCHK" THEN [act |-> "err", err |-> "invalid huffman chunk magic"]
    ELSE IF c.len = 0 THEN [act |-> "return", err |-> ""]
    ELSE IF c.len > maxHuffmanChunkLen
      THEN [act |-> "err", err |-> "huffman chunk too large"]
    ELSE IF c.present = 0 THEN [act |-> "return", err |-> ""]
    ELSE IF c.present < c.len
      THEN [act |-> "err", err |-> "failed to read huffman chunk data: unexpected EOF"]
    ELSE [act |-> "job", err |-> ""]

\* Producer, one round of its loop after the ctx check: io.ReadFull of the
\* chunk header (io.EOF: return), the magic, the length (0: return), io.ReadFull
\* of the body. ReadFull returns io.EOF when it read nothing and
\* io.ErrUnexpectedEOF when it read a part; both are wrapped with %w.
readChunk(stream, pos) ==
  IF pos > Len(stream.chunks) THEN [act |-> "return", err |-> ""]
  ELSE LET c == stream.chunks[pos] IN
    IF c.magic # "HCHK" THEN [act |-> "err", err |-> "invalid huffman chunk magic"]
    ELSE IF c.len = 0 THEN [act |-> "return", err |-> ""]
    ELSE IF c.len > maxHuffmanChunkLen
      THEN [act |-> "err", err |-> "huffman chunk too large"]
    ELSE IF c.present = 0
      THEN [act |-> "err", err |-> "failed to read huffman chunk data: EOF"]
    ELSE IF c.present < c.len
      THEN [act |-> "err", err |-> "failed to read huffman chunk data: unexpected EOF"]
    ELSE [act |-> "job", err |-> ""]

\* Aggregator, the inner loop: the chunks are written to the pipe by ascending
\* id for as long as the next one is in resultsBuffer.
RECURSIVE drainBuffer(_, _, _)
drainBuffer(buffer, next, out) ==
  IF \E b \in buffer : b.id = next
    THEN LET b == CHOOSE x \in buffer : x.id = next IN
           drainBuffer(buffer \ {b}, next + 1, out \o b.data)
    ELSE [buffer |-> buffer, next |-> next, out |-> out]

\* The input is chosen; no writer has run yet.
InitHFVars ==
  /\ hfData \in HfInputs
  /\ hfOut = [r \in 1..2 |-> NoStream]
  /\ hfPC = "compress"
  /\ hfBad = NoCorruption
  /\ hfStream = NoStream
  /\ hfProd = HfIdleProd
  /\ hfJobs = <<>>
  /\ hfW = [w \in HfWorkers |-> HfIdleWorker]
  /\ hfResults = <<>>
  /\ hfResClosed = FALSE
  /\ hfAgg = HfIdleAgg
  /\ hfCtx = FALSE
  /\ hfErr = ""
  /\ hfPipe = HfNoPipe

\* No codec in the system.
HFParked ==
  /\ hfData = <<>>
  /\ hfOut = [r \in 1..2 |-> NoStream]
  /\ hfPC = "parked"
  /\ hfBad = NoCorruption
  /\ hfStream = NoStream
  /\ hfProd = HfIdleProd
  /\ hfJobs = <<>>
  /\ hfW = [w \in HfWorkers |-> HfIdleWorker]
  /\ hfResults = <<>>
  /\ hfResClosed = FALSE
  /\ hfAgg = HfIdleAgg
  /\ hfCtx = FALSE
  /\ hfErr = ""
  /\ hfPipe = HfNoPipe

\* NewCompressedWriter(sink), Write(data), Close(): done twice on the same data.
HfCompress ==
  /\ HFOnly
  /\ hfPC = "compress"
  /\ \E s \in compressedStreams(hfData) :
       LET r == IF hfOut[1] = NoStream THEN 1 ELSE 2 IN
         /\ hfOut' = [hfOut EXCEPT ![r] = s]
         /\ hfPC' = IF r = 2 THEN "open" ELSE "compress"
  /\ UNCHANGED <<hfData, hfBad, hfStream, hfProd, hfJobs, hfW, hfResults,
                 hfResClosed, hfAgg, hfCtx, hfErr, hfPipe>>

\* NewParallelCompressedReader on the first stream, as written or damaged in
\* one chunk: the stream magic is read and the goroutines are started.
HfOpen ==
  /\ HFOnly
  /\ hfPC = "open"
  /\ \E c \in {NoCorruption} \cup Corruptions(hfOut[1]) :
       /\ hfBad' = c
       /\ hfStream' = Damaged(hfOut[1], c)
  /\ IF hfOut[1].magic = "HUFF"
       THEN /\ hfPC' = "read"
            /\ hfProd' = [HfIdleProd EXCEPT !.pc = "loop"]
            /\ hfW' = [w \in HfWorkers |-> [HfIdleWorker EXCEPT !.pc = "recv"]]
            /\ hfAgg' = [HfIdleAgg EXCEPT !.pc = "run"]
       ELSE /\ hfPC' = "notCompressed"
            /\ UNCHANGED <<hfProd, hfW, hfAgg>>
  /\ UNCHANGED <<hfData, hfOut, hfJobs, hfResults, hfResClosed, hfCtx, hfErr, hfPipe>>

\* Producer: select on ctx.Done() with a default, then one chunk is read.
HfProdRead ==
  /\ HFOnly
  /\ hfProd.pc = "loop"
  /\ IF hfCtx
       THEN /\ hfProd' = [hfProd EXCEPT !.pc = "exit"]
            /\ UNCHANGED <<hfErr, hfCtx>>
       ELSE LET r == readChunk(hfStream, hfProd.pos) IN
         CASE r.act = "return" ->
                /\ hfProd' = [hfProd EXCEPT !.pc = "exit"]
                /\ UNCHANGED <<hfErr, hfCtx>>
           [] r.act = "err" ->
                /\ hfErr' = r.err
                /\ hfCtx' = TRUE
                /\ hfProd' = [hfProd EXCEPT !.pc = "exit"]
           [] r.act = "job" ->
                /\ hfProd' = [hfProd EXCEPT !.pc = "send"]
                /\ UNCHANGED <<hfErr, hfCtx>>
  /\ UNCHANGED <<hfData, hfOut, hfPC, hfBad, hfStream, hfJobs, hfW, hfResults,
                 hfResClosed, hfAgg, hfPipe>>

\* Producer: select { case jobs <- decompressJob{...}: nextID++; case <-ctx.Done(): return }
HfProdSend ==
  /\ HFOnly
  /\ hfProd.pc = "send"
  /\ \/ /\ Len(hfJobs) < PipeChanCap
        /\ hfJobs' = Append(hfJobs, [id |-> hfProd.nextID,
                                     data |-> hfStream.chunks[hfProd.pos].data])
        /\ hfProd' = [pc |-> "loop", pos |-> hfProd.pos + 1, nextID |-> hfProd.nextID + 1]
     \/ /\ hfCtx
        /\ hfProd' = [hfProd EXCEPT !.pc = "exit"]
        /\ UNCHANGED hfJobs
  /\ UNCHANGED <<hfData, hfOut, hfPC, hfBad, hfStream, hfW, hfResults,
                 hfResClosed, hfAgg, hfCtx, hfErr, hfPipe>>

\* Worker: select { case <-ctx.Done(): return; case j, ok := <-jobs: ... }; a job
\* is decompressed at once. jobs is closed when the producer has returned.
HfWorkerRecv(w) ==
  /\ HFOnly
  /\ hfW[w].pc = "recv"
  /\ \/ /\ hfCtx
        /\ hfW' = [hfW EXCEPT ![w] = [pc |-> "exit", res |-> NoResult]]
        /\ UNCHANGED hfJobs
     \/ /\ hfJobs # <<>>
        /\ hfJobs' = Tail(hfJobs)
        /\ \E r \in decompressChunk(Head(hfJobs).data) :
             hfW' = [hfW EXCEPT ![w] = [pc |-> "send",
                                        res |-> [id |-> Head(hfJobs).id,
                                                 data |-> r.data, err |-> r.err]]]
     \/ /\ hfJobs = <<>>
        /\ hfProd.pc = "exit"
        /\ hfW' = [hfW EXCEPT ![w] = [pc |-> "exit", res |-> NoResult]]
        /\ UNCHANGED hfJobs
  /\ UNCHANGED <<hfData, hfOut, hfPC, hfBad, hfStream, hfProd, hfResults,
                 hfResClosed, hfAgg, hfCtx, hfErr, hfPipe>>

\* Worker: select { case results <- decompressResult{...}: ; case <-ctx.Done(): return }
HfWorkerSend(w) ==
  /\ HFOnly
  /\ hfW[w].pc = "send"
  /\ \/ /\ Len(hfResults) < PipeChanCap
        /\ hfResults' = Append(hfResults, hfW[w].res)
        /\ hfW' = [hfW EXCEPT ![w] = [pc |-> "recv", res |-> NoResult]]
     \/ /\ hfCtx
        /\ hfW' = [hfW EXCEPT ![w] = [pc |-> "exit", res |-> NoResult]]
        /\ UNCHANGED hfResults
  /\ UNCHANGED <<hfData, hfOut, hfPC, hfBad, hfStream, hfProd, hfJobs,
                 hfResClosed, hfAgg, hfCtx, hfErr, hfPipe>>

\* go func() { producerWg.Wait(); wg.Wait(); close(results) }()
HfCloseResults ==
  /\ HFOnly
  /\ hfProd.pc = "exit"
  /\ \A w \in HfWorkers : hfW[w].pc = "exit"
  /\ ~hfResClosed
  /\ hfResClosed' = TRUE
  /\ UNCHANGED <<hfData, hfOut, hfPC, hfBad, hfStream, hfProd, hfJobs, hfW,
                 hfResults, hfAgg, hfCtx, hfErr, hfPipe>>

\* Aggregator: case res, ok := <-results with ok: an error result is recorded in
\* pipelineErr and the context cancelled; a chunk is stored and what is in
\* order is written to the pipe, where the caller's Read takes it.
HfAggRecv ==
  /\ HFOnly
  /\ hfAgg.pc = "run"
  /\ hfResults # <<>>
  /\ hfResults' = Tail(hfResults)
  /\ LET res == Head(hfResults) IN
       IF res.err # ""
         THEN /\ hfErr' = res.err
              /\ hfCtx' = TRUE
              /\ UNCHANGED <<hfAgg, hfPipe>>
         ELSE LET d == drainBuffer(hfAgg.buffer \cup {[id |-> res.id, data |-> res.data]},
                                   hfAgg.next, hfPipe.data) IN
              /\ hfAgg' = [hfAgg EXCEPT !.buffer = d.buffer, !.next = d.next]
              /\ hfPipe' = [hfPipe EXCEPT !.data = d.out]
              /\ UNCHANGED <<hfErr, hfCtx>>
  /\ UNCHANGED <<hfData, hfOut, hfPC, hfBad, hfStream, hfProd, hfJobs, hfW,
                 hfResClosed>>

\* A deferred close that always ends the pipe with io.EOF.
closePipeClean(pipelineErr) == "EOF"

\* The deferred function of the pipeline goroutine: pw.CloseWithError(pipelineErr)
\* if pipelineErr != nil, else pw.Close(), after which Read returns io.EOF.
closePipe(pipelineErr) == IF pipelineErr # "" THEN pipelineErr ELSE "EOF"

\* Aggregator returns: case <-ctx.Done(), or results closed and empty. The
\* deferred cancel() and the deferred close of the pipe run.
HfAggReturn ==
  /\ HFOnly
  /\ hfAgg.pc = "run"
  /\ \/ hfCtx
     \/ hfResults = <<>> /\ hfResClosed
  /\ hfAgg' = [hfAgg EXCEPT !.pc = "exit"]
  /\ hfCtx' = TRUE
  /\ hfPipe' = [hfPipe EXCEPT !.closed = TRUE, !.err = closePipe(hfErr)]
  /\ UNCHANGED <<hfData, hfOut, hfPC, hfBad, hfStream, hfProd, hfJobs, hfW,
                 hfResults, hfResClosed, hfErr>>

\* The steps of the goroutines that NewParallelCompressedReader starts.
HfReaderStep ==
  \/ HfProdRead
  \/ HfProdSend
  \/ \E w \in HfWorkers : HfWorkerRecv(w)
  \/ \E w \in HfWorkers : HfWorkerSend(w)
  \/ HfCloseResults
  \/ HfAggRecv
  \/ HfAggReturn

NextHF ==
  \/ HfCompress
  \/ HfOpen
  \/ HfProdRead
  \/ HfProdSend
  \/ \E w \in HfWorkers : HfWorkerRecv(w)
  \/ \E w \in HfWorkers : HfWorkerSend(w)
  \/ HfCloseResults
  \/ HfAggRecv
  \/ HfAggReturn

(***************************************************************************)
(* ---- Stream ciphers: parallelStreamWriter and the decrypting reader ---- *)
(***************************************************************************)

\* Bounds of the cipher model.
chunkSize == 64      \* bytes per chunk (1 * 1024 * 1024 in the source)
MaxSeed == 1         \* plaintexts per length

\* streamBlockSize of AES-CTR and of ChaCha20; the bits of a byte.
aesBlockSize == 16
chachaBlockSize == 64
byteBits == 8

Algorithms == {"AES256_CTR", "ChaCha20"}
EnWorkers == 1..PipeWorkers      \* workerCount (runtime.NumCPU())

streamBlockSize(algorithm) ==
  IF algorithm = "AES256_CTR" THEN aesBlockSize ELSE chachaBlockSize

\* blockPerChunk: uint64(chunkSize / streamBlockSize)
blockPerChunk(algorithm) == chunkSize \div streamBlockSize(algorithm)

\* The plaintext lengths: none, far below a chunk, just below a chunk, one
\* chunk, a chunk and a short tail, two chunks, two chunks and a short tail,
\* and more chunks than the jobs channel holds with one in a worker's hands.
EnLengths ==
  {0, 1, chunkSize - 1, chunkSize, chunkSize + 1, 2 * chunkSize, 2 * chunkSize + 1,
   (PipeChanCap + 1) * chunkSize + 1}

Plaintext(len, seed) == [i \in 1..len |-> (i * 37 + seed * 101) % (2 ^ byteBits)]

\* a ^ b on bytes
RECURSIVE xorBits(_, _, _)
xorBits(a, b, n) ==
  IF n = 0 THEN 0
  ELSE ((a + b) % 2) + 2 * xorBits(a \div 2, b \div 2, n - 1)

\* aes.Encrypt(counterBlock) / chacha.block(): the keystream block of a counter
\* value under a key and a nonce. The block cipher is replaced by a fixed
\* function of the algorithm, the key and the counter.
keystreamBlock(algorithm, key, counter) ==
  LET k == IF key = deriveKey(Password, HeaderSalt) THEN 11 ELSE 29
      a == IF algorithm = "AES256_CTR" THEN 3 ELSE 5
  IN [i \in 1..streamBlockSize(algorithm) |->
        (counter * 31 + i * 7 + a * 13 + k) % (2 ^ byteBits)]

\* SetCounter: the counter is stored and pos is set to the block size, which
\* makes the next XORKeyStream generate a block. The counter is a uint64
\* (ChaCha20: a uint32); the counters of the model stay far below either width,
\* and writer and reader would wrap alike.
SetCounter(algorithm, counter) ==
  [counter |-> counter, keystream |-> <<>>, pos |-> streamBlockSize(algorithm)]

\* generateKeystream: the block of the counter; the counter goes up by one.
generateKeystream(algorithm, key, s) ==
  [counter |-> s.counter + 1,
   keystream |-> keystreamBlock(algorithm, key, s.counter),
   pos |-> 0]

\* XORKeyStream(dst, src): dst, byte by byte. The loop takes what is left of the
\* current keystream block, then calls generateKeystream once per block: byte i
\* of src past the current block meets byte (j % blockSize) of the block
\* generated j \div blockSize calls later, j counting from the first new block.
XORKeyStream(algorithm, key, s, src) ==
  LET left == IF s.pos >= Len(s.keystream) THEN 0 ELSE Len(s.keystream) - s.pos
      size == streamBlockSize(algorithm)
      blockAfter(calls) ==
        generateKeystream(algorithm, key, [s EXCEPT !.counter = @ + calls]).keystream
      keyByte(i) ==
        IF i <= left THEN s.keystream[s.pos + i]
        ELSE blockAfter((i - left - 1) \div size)[((i - left - 1) % size) + 1]
  IN [i \in 1..Len(src) |-> xorBits(src[i], keyByte(i), byteBits)]

\* A reader that takes the chunk id for the counter.
readerCounterById(algorithm, id) == id

\* Reader worker: counter := uint64(j.id) * blockPerChunk
readerCounter(algorithm, id) == id * blockPerChunk(algorithm)

\* Writer worker: counter := uint64(j.id) * sw.blockPerChunk
writerCounter(algorithm, id) == id * blockPerChunk(algorithm)

\* parallelStreamWriter.Write and Close: the jobs, full chunks and then what is
\* left in the buffer, if anything.
RECURSIVE writerChunks(_)
writerChunks(buffer) ==
  IF Len(buffer) >= chunkSize
    THEN <<SubSeq(buffer, 1, chunkSize)>>
         \o writerChunks(SubSeq(buffer, chunkSize + 1, Len(buffer)))
  ELSE IF Len(buffer) > 0 THEN <<buffer>>
  ELSE <<>>

RECURSIVE concatChunks(_)
concatChunks(q) == IF q = <<>> THEN <<>> ELSE Head(q) \o concatChunks(Tail(q))

\* What the encrypted writer leaves in the sink after the header: the chunks,
\* each encrypted from its own counter, by ascending id.
encryptedBody(algorithm, key, plain) ==
  LET jobs == writerChunks(plain) IN
    concatChunks([i \in 1..Len(jobs) |->
                    XORKeyStream(algorithm, key,
                                 SetCounter(algorithm, writerCounter(algorithm, i - 1)),
                                 jobs[i])])

NoCut == 0 - 1
EnNoDamage == [cut |-> NoCut, ioErr |-> FALSE]

\* What can happen to a ciphertext body of n bytes before it is read: it is cut
\* inside a chunk, or the read that follows the first chunk fails.
EnDamages(n) ==
  {[cut |-> c, ioErr |-> FALSE] :
     c \in {c \in {1, chunkSize + 1, n - 1} : 0 < c /\ c < n /\ c % chunkSize # 0}}
  \cup {[cut |-> NoCut, ioErr |-> TRUE]}

EnIdleProd == [pc |-> "idle", off |-> 0, nextID |-> 0, n |-> 0, err |-> ""]
EnIdleWorker == [pc |-> "idle", id |-> 0, data |-> <<>>]
EnIdleAgg == [pc |-> "idle", buffer |-> {}, next |-> 0]
EnNoCfg == [algorithm |-> "AES256_CTR", len |-> 0, seed |-> 0]

\* io.ReadFull(r, buf) with len(buf) = chunkSize at offset off of the body:
\* io.EOF when nothing is left, io.ErrUnexpectedEOF with the bytes there are
\* when fewer than chunkSize are left.
readFull(body, off, fails) ==
  LET n == Minimum(chunkSize, Len(body) - off) IN
    IF fails THEN [n |-> 0, err |-> "read error"]
    ELSE IF n = 0 THEN [n |-> 0, err |-> "EOF"]
    ELSE IF n < chunkSize THEN [n |-> n, err |-> "unexpected EOF"]
    ELSE [n |-> n, err |-> ""]

\* Producer: if err != io.EOF && err != io.ErrUnexpectedEOF { pipelineErr = err; cancel() }
producerFails(err) == err \notin {"", "EOF", "unexpected EOF"}

\* No key has been derived yet.
EnNoKeys == [wKey |-> "unset", wKeyCopy |-> "unset", rKey |-> "unset", rKeyCopy |-> "unset"]

\* SecureZero(data): every byte of the buffer is set to 0.
SecureZero(buf) == "zero"

\* keyCopy := make([]byte, len(key)); copy(keyCopy, key)
copyKey(buf) == buf

\* What the pipeline does to the keyCopy its newStreamFn closure holds, from its
\* start to the return of Close (writer) or the end of the stream (reader): the
\* buffer is read by NewAESCTRStream / NewChaCha20Stream and never written.
pipelineKeyCopy(buf) == buf

\* The plaintext and the cipher are chosen; nothing is written yet.
InitENVars ==
  /\ enCfg \in [algorithm : Algorithms, len : EnLengths, seed : 0..MaxSeed]
  /\ enPC = "encrypt"
  /\ enBody = <<>>
  /\ enDamage = EnNoDamage
  /\ enProd = EnIdleProd
  /\ enJobs = <<>>
  /\ enW = [w \in EnWorkers |-> EnIdleWorker]
  /\ enResults = <<>>
  /\ enResClosed = FALSE
  /\ enAgg = EnIdleAgg
  /\ enCtx = FALSE
  /\ enErr = ""
  /\ enPipe = HfNoPipe
  /\ enConsumer = "reading"
  /\ enKeys = EnNoKeys

\* No cipher stream in the system.
ENParked ==
  /\ enCfg = EnNoCfg
  /\ enPC = "parked"
  /\ enBody = <<>>
  /\ enDamage = EnNoDamage
  /\ enProd = EnIdleProd
  /\ enJobs = <<>>
  /\ enW = [w \in EnWorkers |-> EnIdleWorker]
  /\ enResults = <<>>
  /\ enResClosed = FALSE
  /\ enAgg = EnIdleAgg
  /\ enCtx = FALSE
  /\ enErr = ""
  /\ enPipe = HfNoPipe
  /\ enConsumer = "reading"
  /\ enKeys = EnNoKeys

EnKey == deriveKey(Password, HeaderSalt)
EnPlain == Plaintext(enCfg.len, enCfg.seed)

\* NewEncryptedWriter(sink, password, algorithm), which derives the key, hands a
\* copy to the pipeline and clears its own buffer on return (deferred SecureZero);
\* io.Copy of the plaintext; Close.
EnEncrypt ==
  /\ ENOnly
  /\ enPC = "encrypt"
  /\ enBody' = encryptedBody(enCfg.algorithm, EnKey, EnPlain)
  /\ enPC' = "open"
  /\ enKeys' = [enKeys EXCEPT !.wKeyCopy = pipelineKeyCopy(copyKey("key")),
                              !.wKey = SecureZero("key")]
  /\ UNCHANGED <<enCfg, enDamage, enProd, enJobs, enW, enResults, enResClosed,
                 enAgg, enCtx, enErr, enPipe, enConsumer>>

\* NewDecryptedReader(r, password) with the password of the writer: the header
\* is read and checked, newParallelStreamReaderWithPipe starts the goroutines on
\* the body, which is as written, cut short, or on a reader that will fail.
EnOpen ==
  /\ ENOnly
  /\ enPC = "open"
  /\ \E d \in {EnNoDamage} \cup EnDamages(Len(enBody)) :
       /\ enDamage' = d
       /\ enBody' = IF d.cut = NoCut THEN enBody ELSE SubSeq(enBody, 1, d.cut)
  /\ enPC' = "read"
  /\ enProd' = [EnIdleProd EXCEPT !.pc = "loop"]
  /\ enW' = [w \in EnWorkers |-> [EnIdleWorker EXCEPT !.pc = "recv"]]
  /\ enAgg' = [EnIdleAgg EXCEPT !.pc = "run"]
  /\ enKeys' = [enKeys EXCEPT !.rKeyCopy = copyKey("key"), !.rKey = SecureZero("key")]
  /\ UNCHANGED <<enCfg, enJobs, enResults, enResClosed, enCtx, enErr, enPipe, enConsumer>>

\* Producer: select on ctx.Done() with a default, then io.ReadFull of a chunk;
\* with n = 0 the error is looked at right away.
EnProdRead ==
  /\ ENOnly
  /\ enProd.pc = "loop"
  /\ IF enCtx
       THEN /\ enProd' = [enProd EXCEPT !.pc = "exit"]
            /\ UNCHANGED <<enErr, enCtx, enConsumer, enKeys>>
       ELSE LET r == readFull(enBody, enProd.off, enDamage.ioErr /\ enProd.nextID = 1) IN
         IF r.n > 0
           THEN /\ enProd' = [enProd EXCEPT !.pc = "send", !.n = r.n, !.err = r.err]
                /\ UNCHANGED <<enErr, enCtx, enConsumer, enKeys>>
           ELSE /\ enProd' = [enProd EXCEPT !.pc = "exit"]
                /\ enErr' = IF producerFails(r.err) THEN r.err ELSE enErr
                /\ enCtx' = (enCtx \/ producerFails(r.err))
  /\ UNCHANGED <<enCfg, enPC, enBody, enDamage, enJobs, enW, enResults, enResClosed,
                 enAgg, enPipe, enConsumer, enKeys>>

\* Producer: jobs <- job{id: nextID, data: buf[:n]}, a plain send; then the error
\* of the read: any error ends the producer.
EnProdSend ==
  /\ ENOnly
  /\ enProd.pc = "send"
  /\ Len(enJobs) < PipeChanCap
  /\ enJobs' = Append(enJobs, [id |-> enProd.nextID,
                               data |-> SubSeq(enBody, enProd.off + 1,
                                               enProd.off + enProd.n)])
  /\ enProd' = [pc |-> IF enProd.err # "" THEN "exit" ELSE "loop",
                off |-> enProd.off + enProd.n, nextID |-> enProd.nextID + 1,
                n |-> 0, err |-> ""]
  /\ enErr' = IF producerFails(enProd.err) THEN enProd.err ELSE enErr
  /\ enCtx' = (enCtx \/ producerFails(enProd.err))
  /\ UNCHANGED <<enCfg, enPC, enBody, enDamage, enW, enResults, enResClosed,
                 enAgg, enPipe, enConsumer, enKeys>>

\* Worker: select { case <-ctx.Done(): return; case j, ok := <-jobs: ... }; the
\* chunk is decrypted from the counter of its id.
EnWorkerRecv(w) ==
  /\ ENOnly
  /\ enW[w].pc = "recv"
  /\ \/ /\ enCtx
        /\ enW' = [enW EXCEPT ![w] = [EnIdleWorker EXCEPT !.pc = "exit"]]
        /\ UNCHANGED enJobs
     \/ /\ enJobs # <<>>
        /\ enJobs' = Tail(enJobs)
        /\ enW' = [enW EXCEPT ![w] =
             [pc |-> "send", id |-> Head(enJobs).id,
              data |-> XORKeyStream(enCfg.algorithm, EnKey,
                         SetCounter(enCfg.algorithm,
                                    readerCounter(enCfg.algorithm, Head(enJobs).id)),
                         Head(enJobs).data)]]
     \/ /\ enJobs = <<>>
        /\ enProd.pc = "exit"
        /\ enW' = [enW EXCEPT ![w] = [EnIdleWorker EXCEPT !.pc = "exit"]]
        /\ UNCHANGED enJobs
  /\ UNCHANGED <<enCfg, enPC, enBody, enDamage, enProd, enResults, enResClosed,
                 enAgg, enCtx, enErr, enPipe, enConsumer, enKeys>>

\* Worker: select { case results <- result{...}: ; case <-ctx.Done(): return }
EnWorkerSend(w) ==
  /\ ENOnly
  /\ enW[w].pc = "send"
  /\ \/ /\ Len(enResults) < PipeChanCap
        /\ enResults' = Append(enResults, [id |-> enW[w].id, data |-> enW[w].data])
        /\ enW' = [enW EXCEPT ![w] = [EnIdleWorker EXCEPT !.pc = "recv"]]
     \/ /\ enCtx
        /\ enW' = [enW EXCEPT ![w] = [EnIdleWorker EXCEPT !.pc = "exit"]]
        /\ UNCHANGED enResults
  /\ UNCHANGED <<enCfg, enPC, enBody, enDamage, enProd, enJobs, enResClosed,
                 enAgg, enCtx, enErr, enPipe, enConsumer, enKeys>>

\* go func() { producerWg.Wait(); wg.Wait(); close(results) }()
EnCloseResults ==
  /\ ENOnly
  /\ enProd.pc = "exit"
  /\ \A w \in EnWorkers : enW[w].pc = "exit"
  /\ ~enResClosed
  /\ enResClosed' = TRUE
  /\ UNCHANGED <<enCfg, enPC, enBody, enDamage, enProd, enJobs, enW, enResults,
                 enAgg, enCtx, enErr, enPipe, enConsumer, enKeys>>

\* Aggregator: a result is stored and what is in order is written to the pipe,
\* where the caller's Read takes it. After the caller's Close pw.Write fails:
\* cancel(), return, and the deferred close of the pipe.
EnAggRecv ==
  /\ ENOnly
  /\ enAgg.pc = "run"
  /\ enResults # <<>>
  /\ enResults' = Tail(enResults)
  /\ LET d == drainBuffer(enAgg.buffer \cup {Head(enResults)}, enAgg.next, enPipe.data) IN
       IF enConsumer = "closed" /\ d.out # enPipe.data
         THEN /\ enAgg' = [enAgg EXCEPT !.pc = "exit", !.buffer = @ \cup {Head(enResults)}]
              /\ enCtx' = TRUE
              /\ enPipe' = [enPipe EXCEPT !.closed = TRUE, !.err = closePipe(enErr)]
              /\ enKeys' = [enKeys EXCEPT !.rKeyCopy = pipelineKeyCopy(@)]
         ELSE /\ enAgg' = [enAgg EXCEPT !.buffer = d.buffer, !.next = d.next]
              /\ enPipe' = [enPipe EXCEPT !.data = d.out]
              /\ UNCHANGED <<enCtx, enKeys, enConsumer, enKeys>>
  /\ UNCHANGED <<enCfg, enPC, enBody, enDamage, enProd, enJobs, enW, enResClosed,
                 enErr, enConsumer>>

\* Aggregator returns: case <-ctx.Done(), or results closed and empty; the
\* deferred cancel() and the deferred close of the pipe run.
EnAggReturn ==
  /\ ENOnly
  /\ enAgg.pc = "run"
  /\ \/ enCtx
     \/ enResults = <<>> /\ enResClosed
  /\ enAgg' = [enAgg EXCEPT !.pc = "exit"]
  /\ enCtx' = TRUE
  /\ enPipe' = [enPipe EXCEPT !.closed = TRUE, !.err = closePipe(enErr)]
  /\ enKeys' = [enKeys EXCEPT !.rKeyCopy = pipelineKeyCopy(@)]
  /\ UNCHANGED <<enCfg, enPC, enBody, enDamage, enProd, enJobs, enW, enResults,
                 enResClosed, enErr, enConsumer>>

\* The caller closes the reader before the end of the stream (pr.Close()), as
\* readManifest does once it has the first entry.
EnConsumerClose ==
  /\ ENOnly
  /\ enPC = "read"
  /\ enConsumer = "reading"
  /\ ~enPipe.closed
  /\ enConsumer' = "closed"
  /\ UNCHANGED <<enCfg, enPC, enBody, enDamage, enProd, enJobs, enW, enResults,
                 enResClosed, enAgg, enCtx, enErr, enPipe, enKeys>>

NextEN ==
  \/ EnEncrypt
  \/ EnOpen
  \/ EnProdRead
  \/ EnProdSend
  \/ \E w \in EnWorkers : EnWorkerRecv(w)
  \/ \E w \in EnWorkers : EnWorkerSend(w)
  \/ EnCloseResults
  \/ EnAggRecv
  \/ EnAggReturn
  \/ EnConsumerClose

(***************************************************************************)
(* ------------------- FilterConfig.ShouldInclude ------------------------- *)
(***************************************************************************)

\* Bounds of the filter model.
MaxDepth == 2        \* components of a path
MaxExcludes == 2     \* entries of ExcludePaths

\* File names, as the sequences of their characters.
NameA == <<"a">>
NameAB == <<"a", "b">>
FileNames == {NameA, NameAB}

\* A cleaned absolute path is the sequence of its components; "" has none and
\* is kept apart from every path.
EmptyString == [empty |-> TRUE, parts |-> <<>>]
PathOf(parts) == [empty |-> FALSE, parts |-> parts]
FlPaths == {PathOf(q) : q \in UNION {[1..n -> FileNames] : n \in 1..MaxDepth}}

\* The entries of IncludePaths and ExcludePaths, the patterns of IncludeNames
\* and ExcludeNames ("[" is a malformed pattern).
ExcludePathEntries == {EmptyString, PathOf(<<NameA>>), PathOf(<<NameA, NameAB>>)}
IncludePathEntries == {PathOf(<<NameA>>), PathOf(<<NameAB>>)}
ExcludePatterns == {<<"a", "*">>, <<"?">>, <<"a", "b">>, <<"[">>}
IncludePatterns == {<<"a", "*">>, <<"a", "b">>}

ListsUpTo(S, n) == UNION {[1..k -> S] : k \in 0..n}

NoTime == 0 - 1
FilterConfigs ==
  [IncludePaths : ListsUpTo(IncludePathEntries, 1),
   ExcludePaths : ListsUpTo(ExcludePathEntries, MaxExcludes),
   IncludeNames : ListsUpTo(IncludePatterns, 1),
   ExcludeNames : ListsUpTo(ExcludePatterns, 1),
   NewerThan : {NoTime},
   OlderThan : {NoTime, 1},
   MinSize : {0, 2},
   MaxSize : {0 - 1}]

\* os.FileInfo of a path: Name() is its last component.
FileInfos(path) ==
  [Name : {path.parts[Len(path.parts)]}, IsDir : BOOLEAN, ModTime : {1}, Size : {1}]

\* filepath.Rel(base, target) on cleaned absolute paths: ".." for every
\* component of base after the common prefix, then the rest of target; "."
\* when nothing is left.
DotDot == <<".", ".">>
Dot == <<".">>
commonPrefix(a, b) ==
  CHOOSE c \in 0..Minimum(Len(a), Len(b)) :
    /\ \A i \in 1..c : a[i] = b[i]
    /\ c < Minimum(Len(a), Len(b)) => a[c + 1] # b[c + 1]
filepathRel(base, target) ==
  LET c == commonPrefix(base, target)
      rel == [i \in 1..(Len(base) - c) |-> DotDot] \o SubSeq(target, c + 1, Len(target))
  IN IF rel = <<>> THEN <<Dot>> ELSE rel

\* isPathWithin(path, base)
isPathWithin(path, base) ==
  IF base.empty THEN FALSE
  ELSE IF path.parts = base.parts THEN TRUE
  ELSE LET rel == filepathRel(base.parts, path.parts) IN
    IF rel = <<Dot>> THEN TRUE
    ELSE IF Head(rel) = DotDot THEN FALSE
    ELSE TRUE

\* filepath.Match(pattern, name) for patterns of literals, "?" and "*"; a
\* pattern with "[" and no closing bracket is ErrBadPattern.
RECURSIVE globMatch(_, _)
globMatch(pattern, name) ==
  IF pattern = <<>> THEN name = <<>>
  ELSE IF Head(pattern) = "*"
    THEN globMatch(Tail(pattern), name)
         \/ (name # <<>> /\ globMatch(pattern, Tail(name)))
  ELSE IF Head(pattern) = "?"
    THEN name # <<>> /\ globMatch(Tail(pattern), Tail(name))
  ELSE name # <<>> /\ Head(name) = Head(pattern)
       /\ globMatch(Tail(pattern), Tail(name))

filepathMatch(pattern, name) ==
  IF \E i \in 1..Len(pattern) : pattern[i] = "["
    THEN [matched |-> FALSE, err |-> "ErrBadPattern"]
    ELSE [matched |-> globMatch(pattern, name), err |-> ""]

\* err == nil && matched
nameMatches(pattern, name) ==
  LET m == filepathMatch(pattern, name) IN m.err = "" /\ m.matched

\* ShouldInclude, steps 1 and 2: the exclude rules.
excludedByRule(fc, path, info) ==
  \/ \E i \in 1..Len(fc.ExcludePaths) :
       ~fc.ExcludePaths[i].empty /\ isPathWithin(path, fc.ExcludePaths[i])
  \/ \E i \in 1..Len(fc.ExcludeNames) : nameMatches(fc.ExcludeNames[i], info.Name)

\* ShouldInclude, steps 3 and 4: time (not for directories) and size (regular
\* files; the paths of the model are directories and regular files).
passesTimeAndSize(fc, info) ==
  /\ ~info.IsDir =>
       /\ ~(fc.OlderThan # NoTime /\ ~(info.ModTime < fc.OlderThan))
       /\ ~(fc.NewerThan # NoTime /\ ~(info.ModTime > fc.NewerThan))
  /\ ~info.IsDir =>
       /\ ~(fc.MinSize > 0 /\ info.Size < fc.MinSize)
       /\ ~(fc.MaxSize > 0 /\ info.Size > fc.MaxSize)

\* matchIncludePath
matchIncludePath(fc, path, info) ==
  \/ Len(fc.IncludePaths) = 0
  \/ \E i \in 1..Len(fc.IncludePaths) :
       /\ ~fc.IncludePaths[i].empty
       /\ \/ isPathWithin(path, fc.IncludePaths[i])
          \/ info.IsDir /\ isPathWithin(fc.IncludePaths[i], path)

\* ShouldInclude, steps 5 and 6: the include rules, if there are any.
passesInclude(fc, path, info) ==
  IF Len(fc.IncludePaths) = 0 /\ Len(fc.IncludeNames) = 0 THEN TRUE
  ELSE /\ matchIncludePath(fc, path, info)
       /\ (Len(fc.IncludeNames) > 0 /\ ~info.IsDir) =>
            \E i \in 1..Len(fc.IncludeNames) : nameMatches(fc.IncludeNames[i], info.Name)

\* A filter in which a matching include rule is looked at first.
ShouldIncludeFirst(fc, path, info) ==
  \/ /\ Len(fc.IncludePaths) > 0 \/ Len(fc.IncludeNames) > 0
     /\ passesInclude(fc, path, info)
  \/ /\ ~excludedByRule(fc, path, info)
     /\ passesTimeAndSize(fc, info)
     /\ passesInclude(fc, path, info)

\* FilterConfig.ShouldInclude(path, info)
ShouldInclude(fc, path, info) ==
  /\ ~excludedByRule(fc, path, info)
  /\ passesTimeAndSize(fc, info)
  /\ passesInclude(fc, path, info)

\* A filter configuration and a path with its FileInfo are chosen.
InitFLVars ==
  /\ flCfg \in FilterConfigs
  /\ flPath \in FlPaths
  /\ flInfo \in FileInfos(flPath)
  /\ flPC = "call"
  /\ flResult = FALSE

\* No filter in the system.
FLParked ==
  /\ flCfg = [IncludePaths |-> <<>>, ExcludePaths |-> <<>>, IncludeNames |-> <<>>,
              ExcludeNames |-> <<>>, NewerThan |-> NoTime, OlderThan |-> NoTime,
              MinSize |-> 0, MaxSize |-> 0 - 1]
  /\ flPath = EmptyString
  /\ flInfo = [Name |-> <<>>, IsDir |-> FALSE, ModTime |-> 0, Size |-> 0]
  /\ flPC = "parked"
  /\ flResult = FALSE

\* filters.ShouldInclude(path, info) is called and returns.
FlShouldInclude ==
  /\ FLOnly
  /\ flPC = "call"
  /\ flResult' = ShouldInclude(flCfg, flPath, flInfo)
  /\ flPC' = "returned"
  /\ UNCHANGED <<flCfg, flPath, flInfo>>

NextFL ==
  \/ FlShouldInclude

(***************************************************************************)
(* ---------------------------- Specifications ---------------------------- *)
(***************************************************************************)

InitTR ==
  /\ InitTRVars
  /\ BKParked
  /\ RSParked
  /\ PWParked
  /\ MXParked
  /\ DFParked
  /\ HFParked
  /\ ENParked
  /\ FLParked

SpecTR == InitTR /\ [][NextTR]_vars

InitBK ==
  /\ InitBKVars
  /\ InitTRVars
  /\ RSParked
  /\ PWParked
  /\ MXParked
  /\ DFParked
  /\ HFParked
  /\ ENParked
  /\ FLParked

SpecBK == InitBK /\ [][NextBK]_vars

InitRS ==
  /\ InitRSVars
  /\ InitTRVars
  /\ BKParked
  /\ PWParked
  /\ MXParked
  /\ DFParked
  /\ HFParked
  /\ ENParked
  /\ FLParked

SpecRS == InitRS /\ [][NextRS]_vars

InitPW ==
  /\ InitPWVars
  /\ InitTRVars
  /\ BKParked
  /\ RSParked
  /\ MXParked
  /\ DFParked
  /\ HFParked
  /\ ENParked
  /\ FLParked

SpecPW == InitPW /\ [][NextPW]_vars

InitMX ==
  /\ InitMXVars
  /\ InitTRVars
  /\ BKParked
  /\ RSParked
  /\ PWParked
  /\ DFParked
  /\ HFParked
  /\ ENParked
  /\ FLParked

SpecMX == InitMX /\ [][NextMX]_vars

InitDF ==
  /\ InitDFVars
  /\ InitTRVars
  /\ BKParked
  /\ RSParked
  /\ PWParked
  /\ MXParked
  /\ HFParked
  /\ ENParked
  /\ FLParked

SpecDF == InitDF /\ [][NextDF]_vars

InitHF ==
  /\ InitHFVars
  /\ InitTRVars
  /\ BKParked
  /\ RSParked
  /\ PWParked
  /\ MXParked
  /\ DFParked
  /\ ENParked
  /\ FLParked

SpecHF == InitHF /\ [][NextHF]_vars

\* The goroutines of the reader are scheduled: as long as one of them can take
\* a step, a step of the reader is taken.
SpecHFLive == SpecHF /\ WF_vars(HfReaderStep)

InitEN ==
  /\ InitENVars
  /\ InitTRVars
  /\ BKParked
  /\ RSParked
  /\ PWParked
  /\ MXParked
  /\ DFParked
  /\ HFParked
  /\ FLParked

SpecEN == InitEN /\ [][NextEN]_vars

InitFL ==
  /\ InitFLVars
  /\ InitTRVars
  /\ BKParked
  /\ RSParked
  /\ PWParked
  /\ MXParked
  /\ DFParked
  /\ HFParked
  /\ ENParked

SpecFL == InitFL /\ [][NextFL]_vars

(***************************************************************************)
(* -------------------------------- Claims -------------------------------- *)
(***************************************************************************)

\* The regular files the scan of the case's roots selected are all under restoreDir,
\* at their relative path, with the content of the source file.
RsFilesRestored ==
  LET jobs == scanJobs(rsCase.roots) IN
  \A k \in DOMAIN jobs :
    SourceNode(rsCase.roots, jobs[k]).t = "file"
      => rsDir[jobs[k].relPath] = SourceNode(rsCase.roots, jobs[k])

\* C1: for every combination of compression and encryption (same password on both
\* sides), restoring an archive produced by Backup into an empty directory yields,
\* for every regular file the scan selected, a file at the same relative path with
\* the content of the source file.
C1_RoundTrip ==
  (rsRet = "nil" /\ rsCase.class = "full" /\ rsCase.pwR = Password) => RsFilesRestored

\* The round trip of a backup of a single source path, which also succeeds.
C1_SingleRootRoundTrip ==
  (rsRet # "none" /\ ~rsCtxDone /\ rsCase.class = "full" /\ rsCase.pwR = Password
     /\ Len(rsCase.roots) = 1)
    => rsRet = "nil" /\ RsFilesRestored

\* C2: restoring the tip of a chain (a full backup followed by an incremental taken
\* against it) into an empty directory yields exactly the source tree at the time of
\* the tip: every path with its latest content and type, deleted paths absent.
C2_ChainRestore ==
  (rsRet # "none" /\ ~rsCtxDone /\ rsCase.class = "chain" /\ rsCase.pwR = Password)
    => rsRet = "nil" /\ rsDir = RsTipTree(rsCase)

\* C3 as stated: if the CRC stored after a regular file's payload differs from the
\* CRC of the payload read, Restore returns an error containing "crc32 mismatch".
C3_CrcMismatchReported ==
  (rsRet # "none" /\ rsG.crcBad) => rsRet = "crc32 mismatch"

\* C3: if the CRC stored after a regular file's payload differs from the CRC of the
\* payload read, Restore never reports success: it returns the "crc32 mismatch"
\* error, or the cancellation error when the context is cancelled by then.
C3_CrcMismatchOrCancel ==
  (rsRet # "none" /\ rsG.crcBad)
    => rsRet = IF rsCtxDone THEN "cancel" ELSE "crc32 mismatch"

\* C3 witness: Restore returned the mismatch error for an archive with an altered CRC.
C3_Witness ==
  /\ rsRet = "crc32 mismatch"
  /\ rsG.crcBad
  /\ rsCase.corrupt = "crc"

\* Restore is given a non-empty password other than the one of the encrypted archive.
RsWrongPassword ==
  /\ rsCase.enc
  /\ RsFiles(rsCase)[RsTip(rsCase)].hdr[2] = version2
  /\ rsCase.pwR \notin {Password, ""}

\* C4: Restore of a version-2 encrypted archive with an incorrect non-empty password
\* returns InvalidPassword, and nothing under restoreDir is created, modified or
\* removed, at any time up to its return.
C4_WrongPassword ==
  RsWrongPassword =>
    /\ rsDir = rsCase.dir0
    /\ rsRet # "none" => rsRet = "InvalidPassword"

\* C4 witness: InvalidPassword returned for a chain, restoreDir populated before.
C4_Witness ==
  /\ RsWrongPassword
  /\ rsRet = "InvalidPassword"
  /\ rsCase.class = "chain"
  /\ rsCase.dir0 = OldTree
  /\ rsDir = OldTree

\* The producer of runRestore waits to send into the full jobsChan, or to write into
\* a pipe whose read side is open.
RsProducerBlocked ==
  \/ rsProd.pc = "send" /\ Len(rsJobsChan) >= JobsChanCap
  \/ rsProd.pc = "copy" /\ ~rsPrClosed

\* C7: after a cancellation the producer is never left blocked on the job channel
\* or on a pipe write with every worker gone (Restore could not return then).
C7_ProducerNotStuck ==
  ~(rsCtxDone /\ RsProducerBlocked /\ \A w \in RsWorkers : rsW[w].pc = "exit")

\* C5: whenever Backup returns NoFilesSelected or BackupIncremental returns
\* NoChanges, the destination file has not been created or truncated by the call.
C5_NoDestOnReject ==
  bkRet.kind \in {"NoFilesSelected", "NoChanges"} => bkDest # "new"

\* C5 witness: BackupIncremental returned NoChanges over an existing destination file.
C5_Witness ==
  /\ bkRet.kind = "NoChanges"
  /\ bkDest = "old"

\* Backup returned NoFilesSelected for a scan that selected directories only.
C5_WitnessNoFiles ==
  /\ bkRet.kind = "NoFilesSelected"
  /\ bkScan # <<>>
  /\ bkDest = "old"

\* C6: if the context is cancelled while Backup is archiving and a scanned job has
\* not been archived yet, Backup returns a cancellation error; and Backup never
\* returns success for an archive that misses a selected entry.
C6_CancelReported ==
  /\ (bkRet.kind # "none" /\ bkG.cancelMissing) => bkRet.kind = "cancel"
  /\ bkRet.kind = "nil" => bkG.archived = DOMAIN bkJobs

\* C8: once a worker has failed on a job no further job is handed to a worker, and
\* Backup returns the error of the first job that failed.
C8_StopOnFirstError ==
  /\ ~bkG.handedAfterErr
  /\ (bkRet.kind # "none" /\ bkG.firstErr # 0) => bkRet = BkRet("err", bkG.firstErr)

\* Nothing of the task runner is in flight: no runTask or requestRun call is
\* pending, no executor runs, no timer is armed.
TRQuiet ==
  /\ \A id \in TaskIds : TotalRunCalls(id) = 0 /\ reqCalls[id] = 0
  /\ execs = {}
  /\ timers = {}

\* C9: for a task that stays registered and enabled, when one trigger found the
\* task idle and k >= 1 further triggers (cron ticks, RunNow calls, debounce-timer
\* fires) entered runTask while that first executor invocation was in progress,
\* then exactly one additional invocation is started, after the first one
\* completed (never two at a time), whatever k is.
C9_OneRerun ==
  ~trg.disturbed =>
    /\ Cardinality(execs) <= 1
    /\ (trg.idleTrig = 1 /\ trg.busy1 >= 1 /\ trg.busyLater = 0) => trg.execStarted <= 2
    /\ (TRQuiet /\ trg.idleTrig = 1 /\ trg.busy1 >= 1 /\ trg.busyLater = 0)
         => trg.execStarted = 2

\* C9 witness: two triggers arrived during the first invocation, one rerun followed.
C9_Witness ==
  /\ TRQuiet
  /\ ~trg.disturbed
  /\ trg.idleTrig = 1
  /\ trg.busy1 >= 2
  /\ trg.busyLater = 0
  /\ trg.execStarted = 2

\* C10: for a watch task (no RunNow or cron trigger, registration unchanged since
\* the first event), one burst of n >= 1 events, each received less than the
\* debounce interval after the previous one, leads to exactly one executor
\* invocation.
C10_BurstOneRun ==
  (TRQuiet /\ ~trg.disturbed /\ trg.calls = 0 /\ trg.burstsArr = 1)
    => trg.execStarted = 1

\* The same with the burst measured where requestRun re-arms the timer.
C10_RearmBurstOneRun ==
  (TRQuiet /\ ~trg.disturbed /\ trg.calls = 0 /\ trg.burstsReq = 1)
    => trg.execStarted = 1

\* C11: when TaskRunner.Stop returns, no executor invocation started by the runner
\* is still in progress for any task.
C11_StopWaitsForExecutors == [][Stop => execs' = {}]_vars

\* The task's LastBackupPath as List reports it.
ListedPath(id) == st[tasks[id]].task.LastBackupPath

C13_ChunksInOrder ==
  /\ \A i \in 1..Len(pwSink) : pwSink[i] = i - 1
  /\ pwRet = "nil" => Len(pwSink) = pwNextID

\* C13 witness: Close of the encrypted writer returned nil, four chunks written,
\* after a result had reached the aggregator ahead of its turn.
C13_Witness ==
  /\ pwCfg.kind = "enc"
  /\ pwRet = "nil"
  /\ pwG.outOfOrder
  /\ pwSink = <<0, 1, 2, 3>>

\* The same for the compressed writer.
C13_WitnessHuff ==
  /\ pwCfg.kind = "huff"
  /\ pwRet = "nil"
  /\ pwG.outOfOrder
  /\ pwSink = <<0, 1, 2, 3>>

\* A worker of the compressed writer can never deliver its result: the results
\* channel is full and resultWriter has returned.
HwWorkerStuck ==
  /\ pwCfg.kind = "huff"
  /\ pwAgg.pc = "exit"
  /\ Len(pwResults) >= PipeChanCap
  /\ \E w \in PwWorkers : pwW[w].pc \in {"send", "sendErr"}

\* C14: if a write to the sink fails while the compressed writer emits chunks,
\* Close returns (no worker is left blocked for wg.Wait() to wait on) and it
\* returns that error.
C14_CloseReturnsSinkError ==
  /\ ~HwWorkerStuck
  /\ (pwCfg.kind = "huff" /\ pwErr = "sink" /\ pwRet # "none") => pwRet = "sink"

\* Close of the compressed writer returned the sink's error.
C14_SinkErrorReturned ==
  /\ pwCfg.kind = "huff"
  /\ pwRet = "sink"

\* The workers that are between archiveMutex.Lock() and archiveMutex.Unlock().
MxInside == {w \in BkWorkers : mxW[w].pc \in {"write", "unlock"}}

\* C15: at most one worker is inside ArchiveWriter.WriteEntry at any time, and the
\* pieces of an entry (length prefix, header, payload, CRC) are contiguous in the
\* archive stream, never interleaved with pieces of another entry.
C15_OneWriterAtATime ==
  /\ Cardinality(MxInside) <= 1
  /\ \A i, k \in 1..Len(mxStream) :
       (i < k /\ mxStream[i].job = mxStream[k].job)
         => \A j \in i..k : mxStream[j].job = mxStream[i].job

\* C15 witness: a worker waits for the mutex while another one has written the
\* first pieces of its entry, after a complete entry of a regular file.
C15_Witness ==
  /\ \E w \in BkWorkers : mxW[w].pc = "lock"
  /\ \E w \in BkWorkers : mxW[w].pc = "write" /\ mxW[w].part = 3
  /\ Len(mxStream) = 6
  /\ mxStream[4].part = "crc"

\* C16: in every archive Backup or BackupIncremental produces, the first entry
\* written to the archive stream is the manifest at .qbakmeta/manifest.json; no
\* tombstone and no entry of a worker precedes it.
C16_ManifestFirst ==
  /\ bkArchive # <<>> =>
       /\ bkArchive[1].kind = "manifest"
       /\ bkArchive[1].Path = manifestEntryPath
  /\ \A i \in 2..Len(bkArchive) : bkArchive[i].kind # "manifest"
  /\ bkRet.kind = "nil" => bkArchive # <<>>

\* C16 witness: an incremental backup returned nil with the manifest, then a
\* tombstone, then an entry written by a worker.
C16_Witness ==
  /\ bkIn.mode = "incr"
  /\ bkRet.kind = "nil"
  /\ Len(bkArchive) >= 3
  /\ bkArchive[1].kind = "manifest"
  /\ bkArchive[2].kind = "del"
  /\ bkArchive[3].kind \in {"file", "dir"}

\* The jobs of the scan that stand for a named entry (every entry but ".").
NamedJobs == {k \in DOMAIN bkScan : bkScan[k].relPath # "."}

\* C17: the files list of the manifest of a full or incremental backup holds
\* exactly the entries the scan selected, each as often as the scan selected it
\* and with the attributes the scan saw, unchanged entries of an incremental
\* included, and the list is sorted ascending by path.
C17_ManifestFilesAreScan ==
  \A i \in DOMAIN bkArchive :
    bkArchive[i].kind = "manifest" =>
      LET files == bkArchive[i].files
      IN /\ Len(files) = Cardinality(NamedJobs)
         /\ \A p \in Paths, n \in Nodes :
              Cardinality({k \in DOMAIN files : files[k] = ManifestFile(p, n)})
                = Cardinality({k \in NamedJobs :
                                 /\ bkScan[k].relPath = p
                                 /\ SourceNode(bkIn.roots, bkScan[k]) = n})
         /\ \A k, l \in DOMAIN files :
              k < l => PathRank(files[k].Path) <= PathRank(files[l].Path)

\* C17 witness: an incremental backup returned nil; its manifest lists two
\* entries, one of them unchanged relative to the parent and so written by no
\* worker.
C17_Witness ==
  /\ bkIn.mode = "incr"
  /\ bkRet.kind = "nil"
  /\ bkArchive # <<>>
  /\ Len(bkArchive[1].files) >= 2
  /\ \E k \in DOMAIN bkArchive[1].files :
       \A i \in 2..Len(bkArchive) : bkArchive[i].Path # bkArchive[1].files[k].Path

\* regular file, directory or symlink
TypeOf(f) == IF f.IsLink THEN "link" ELSE IF f.IsDir THEN "dir" ELSE "file"

\* The paths both manifests list, with different types.
TypeChangedPaths ==
  {p \in DOMAIN dfCur \cap DOMAIN dfPar : TypeOf(dfCur[p]) # TypeOf(dfPar[p])}

\* changed: in the current scan and absent from the parent or failing equalForDiff.
ChangedAsStated ==
  {p \in DOMAIN dfCur : p \notin DOMAIN dfPar \/ ~equalForDiff(dfCur[p], dfPar[p])}

\* C18 as stated: in the incremental diff the deleted set is exactly the paths
\* of the parent manifest that the current scan lacks, the changed set is
\* exactly the paths of the current scan that are absent from the parent or fail
\* equalForDiff against it, and every path whose type changed between regular
\* file, directory and symlink is in both sets.
C18_DiffSets ==
  dfPC = "done" =>
    /\ dfDeleted = {p \in DOMAIN dfPar : p \notin DOMAIN dfCur}
    /\ dfChanged = ChangedAsStated
    /\ TypeChangedPaths \subseteq dfDeleted \cap dfChanged

\* C18 amended: the deleted set is exactly the paths of the parent manifest that
\* the current scan lacks together with the paths whose type changed; the
\* changed set and the type-change clause are as stated.
C18_DiffSetsWithTypeChange ==
  dfPC = "done" =>
    /\ dfDeleted = {p \in DOMAIN dfPar : p \notin DOMAIN dfCur} \cup TypeChangedPaths
    /\ dfChanged = ChangedAsStated
    /\ TypeChangedPaths \subseteq dfDeleted \cap dfChanged
    /\ dfOut.changedPaths = sortStrings(dfChanged)
    /\ dfOut.deletedPaths = sortStrings(dfDeleted)

\* C18 witness: the diff is done; a is a symlink now and was a regular file in
\* the parent, a/x is in the parent only: both are deleted, a is changed too.
C18_Witness ==
  /\ dfPC = "done"
  /\ "a" \in DOMAIN dfCur /\ "a" \in DOMAIN dfPar
  /\ TypeOf(dfCur["a"]) = "link" /\ TypeOf(dfPar["a"]) = "file"
  /\ "a/x" \in DOMAIN dfPar /\ "a/x" \notin DOMAIN dfCur
  /\ dfDeleted = {"a", "a/x"}
  /\ dfChanged = {"a"}

\* C19: resolving the restore chain ends for every arrangement of parent
\* pointers; when the parent pointers form a cycle (an archive naming itself
\* included) Restore fails with an error and applies no archive to restoreDir.
C19_CycleFails ==
  rsCase.class \in CycleClasses =>
    /\ rsPC \in {"resolve", "done"}
    /\ rsPC = "done" => rsRet = "cycle"
    /\ rsChain = <<>>
    /\ rsDir = rsCase.dir0

\* C19 witness: Restore of an archive whose parent is one of two archives naming
\* each other has returned the cycle error; the populated restoreDir is as it was.
C19_Witness ==
  /\ rsCase.class = "rho"
  /\ rsPC = "done"
  /\ rsRet = "cycle"
  /\ rsCase.dir0 = OldTree
  /\ rsDir = OldTree

\* C20: Restore never creates a file or directory under restoreDir/.qbakmeta/:
\* the manifest and every other entry whose path is under .qbakmeta/ are consumed
\* from the stream by the producer and reach no worker and no disk.
C20_NothingUnderMeta ==
  /\ rsG.meta \cap UnderMetaDir = {}
  /\ \A k \in DOMAIN rsJobsChan : rsJobsChan[k].Path \notin UnderMetaDir
  /\ \A w \in RsWorkers : rsW[w].pc # "idle" => rsW[w].job.Path \notin UnderMetaDir
  /\ rsProd.pc \in {"send", "copy"} => rsProd.e.Path \notin UnderMetaDir

\* C20 witness: the archive of a source that held .qbakmeta/x has been restored
\* with nil; the entries after the skipped ones were read and restored, the
\* directory .qbakmeta exists and is empty.
C20_Witness ==
  /\ rsCase.class = "meta"
  /\ rsRet = "nil"
  /\ rsDir = OldTree
  /\ rsG.meta = {metaDirPath}

\* C21: when the conflict handler returns Skip for an existing destination file,
\* the existing file is left as it was, the payload of the entry is read off the
\* pipe so that the producer is not blocked, and Restore goes on with the entries
\* that follow: without a cancellation it returns nil with every entry read.
C21_SkipDrains ==
  /\ \A p \in rsG.skipped : rsDir[p] = rsCase.dir0[p]
  /\ (rsProd.pc = "copy" /\ rsProd.e.Path \in rsG.skipped)
       => \E w \in RsWorkers : rsW[w].pc = "discard"
  /\ (rsG.skipped # {} /\ rsRet # "none" /\ ~rsCtxDone)
       => rsRet = "nil" /\ rsEntries = <<>>

\* C21 witness: a/x was the first entry and was skipped; the directory entries
\* after it were processed, Restore returned nil and a/x has its old content.
C21_Witness ==
  /\ rsCase.class = "conflict"
  /\ rsCase.ord = "reversed"
  /\ rsG.skipped = {"a/x"}
  /\ rsRet = "nil"
  /\ rsEntries = <<>>
  /\ rsDir = ExistingTree

\* C22: when StartRestore returns, whatever the interleaving of conflict prompts,
\* ResolveConflict calls and StopOperation, the conflict request map is empty and
\* no conflict handler is left waiting on its response channel.
C22_NoRequestLeft ==
  rsCf.returned =>
    /\ rsCf.reqs = {}
    /\ \A w \in RsWorkers : rsW[w].pc # "ask" /\ rsCf.waiting[w] = 0

\* C22 witness: StartRestore has returned after a stop; the request of the
\* handler that left through the cancellation was removed by the exit cleanup.
C22_Witness ==
  /\ rsCf.returned
  /\ rsCf.counter = 1
  /\ rsCf.chan[1] = "closed"
  /\ rsCf.reqs = {}

\* The calls made after the first Close has returned, by operation.
LateCalls(op) == {i \in 1..Len(pwG.late) : pwG.late[i].op = op}

\* C26: every Write issued after Close returns zero bytes written and the
\* WriterClosed error, puts nothing into the writer's buffer, and the sink holds
\* afterwards exactly what it held before the call.
C26_WriteAfterClose ==
  \A i \in LateCalls("Write") :
    /\ pwG.late[i].n = 0
    /\ pwG.late[i].ret = "WriterClosed"
    /\ pwG.late[i].buffered = 0
    /\ pwG.late[i].sink = pwSink

\* A writer that has written chunks to the sink has been closed and written to again.
C26_Witness ==
  /\ pwPC = "done"
  /\ pwRet = "nil"
  /\ Len(pwSink) >= 2
  /\ LateCalls("Write") # {}

\* C27: every Close after the first returns what the first Close returned.
C27_CloseIdempotent ==
  \A i \in LateCalls("Close") : pwG.late[i].ret = pwRet

C25_Deterministic ==
  hfOut[1] # NoStream /\ hfOut[2] # NoStream => hfOut[1] = hfOut[2]

\* Both runs are done on an input of two chunks whose first chunk holds three
\* different bytes, each once: every comparison of the first sort is a tie on
\* the frequency.
C25_Witness ==
  /\ hfOut[2] # NoStream
  /\ Len(hfOut[2].chunks) = 2
  /\ Len(hfOut[2].chunks[1].data.table) = 3
  /\ \A i \in 1..3 : hfOut[2].chunks[1].data.table[i][2] = 1

\* C28: for a stream with one chunk damaged (another chunk magic, a length above
\* maxHuffmanChunkLen, a body that ends early, a bit that leaves the decode
\* tree), the pipe is never closed with io.EOF, and once the reader is open
\* Read eventually returns an error that is not io.EOF.
C28_CorruptFails ==
  /\ [](hfBad # NoCorruption /\ hfPipe.closed => hfPipe.err # "EOF")
  /\ [](hfPC = "read" /\ hfBad # NoCorruption
          => <>(hfPipe.closed /\ hfPipe.err # "EOF"))

\* A stream whose second chunk is damaged has been read: the bytes of the first
\* chunk were delivered, then the error.
C28_Witness ==
  /\ hfBad.kind \in {"magic", "tooLarge", "short", "offTree"}
  /\ hfBad.k = 2
  /\ hfPipe.closed
  /\ hfPipe.err \notin {"", "EOF"}
  /\ hfPipe.data # <<>>

\* C24: with either cipher and a plaintext shorter than a chunk, of one chunk,
\* of two chunks, or of whole chunks and a short tail, the bytes that the
\* decrypting reader delivers for the writer's output under the same password
\* are a prefix of the plaintext at any time and exactly the plaintext, ended
\* by io.EOF, once the pipe is closed.
C24_RoundTrip ==
  enPC = "read" /\ enDamage = EnNoDamage /\ enConsumer = "reading" =>
    /\ Len(enPipe.data) <= Len(EnPlain)
    /\ enPipe.data = SubSeq(EnPlain, 1, Len(enPipe.data))
    /\ enPipe.closed => enPipe.data = EnPlain /\ enPipe.err = "EOF"

\* Two chunks and a short tail under AES-CTR have been written, the ciphertext
\* differs from the plaintext in every chunk, and it has been read back whole.
C24_Witness ==
  /\ enPC = "read"
  /\ enDamage = EnNoDamage
  /\ enCfg.algorithm = "AES256_CTR"
  /\ enCfg.len = 2 * chunkSize + 1
  /\ \E i \in 1..chunkSize : enBody[i] # EnPlain[i]
  /\ \E i \in (chunkSize + 1)..(2 * chunkSize) : enBody[i] # EnPlain[i]
  /\ enBody[enCfg.len] # EnPlain[enCfg.len]
  /\ enPipe.closed
  /\ enPipe.data = EnPlain

\* C29: when the ciphertext body was cut inside a chunk, the pipe of the
\* decrypting reader is not closed with io.EOF.
C29_TruncatedFails ==
  (enPC = "read" /\ enDamage.cut # NoCut /\ enConsumer = "reading" /\ enPipe.closed)
    => enPipe.err # "EOF"

\* The path is the directory of an ExcludePaths entry or lies below it.
LiesWithinExclude ==
  \E i \in 1..Len(flCfg.ExcludePaths) :
    LET e == flCfg.ExcludePaths[i] IN
      /\ ~e.empty
      /\ Len(e.parts) <= Len(flPath.parts)
      /\ SubSeq(flPath.parts, 1, Len(e.parts)) = e.parts

\* The basename matches a pattern of ExcludeNames.
NameExcluded ==
  \E i \in 1..Len(flCfg.ExcludeNames) : nameMatches(flCfg.ExcludeNames[i], flInfo.Name)

\* C30: when the path lies within an ExcludePaths entry or its basename matches
\* an ExcludeNames pattern, ShouldInclude has returned false, whatever
\* IncludePaths and IncludeNames hold.
C30_ExcludeWins ==
  flPC = "returned" /\ (LiesWithinExclude \/ NameExcluded) => flResult = FALSE

\* ShouldInclude has returned false for a file below the second ExcludePaths
\* entry that IncludePaths and IncludeNames both match and no other rule rejects.
C30_Witness ==
  /\ flPC = "returned"
  /\ flResult = FALSE
  /\ Len(flCfg.ExcludePaths) = 2
  /\ flCfg.ExcludePaths[1] = EmptyString
  /\ LiesWithinExclude
  /\ ~NameExcluded
  /\ ~flInfo.IsDir
  /\ Len(flCfg.IncludePaths) = 1
  /\ Len(flCfg.IncludeNames) = 1
  /\ passesInclude(flCfg, flPath, flInfo)
  /\ passesTimeAndSize(flCfg, flInfo)

\* The paths the incremental archive of a chain case holds twice: a tombstone for
\* the object of the parent backup and an entry of another type that recreates it.
RecreatedPaths(c) ==
  {p \in Paths : /\ c.roots[1].tree[p].t # "none"
                 /\ c.next[p].t # "none"
                 /\ c.next[p].t # c.roots[1].tree[p].t}

\* C31: when an incremental archive holds both a tombstone for a path and an entry
\* that recreates the path with another type, the removal is applied before the
\* new entry is materialized under every scheduling of the restore workers: the
\* path exists with its new type and content when Restore returns.
C31_TombstoneBeforeEntry ==
  (rsRet # "none" /\ ~rsCtxDone /\ rsCase.class = "chain" /\ rsCase.pwR = Password)
    => \A p \in RecreatedPaths(rsCase) : rsDir[p] = rsCase.next[p]

\* Restore has returned nil for such an archive with the recreated path in place:
\* the schedulings in which the tombstone job ran first.
C31_RemovalFirstReached ==
  /\ rsRet = "nil"
  /\ rsCase.class = "chain"
  /\ RecreatedPaths(rsCase) # {}
  /\ \A p \in RecreatedPaths(rsCase) : rsDir[p] = rsCase.next[p]

\* The executor invocations in progress for a task id.
ExecsOf(id) == {e \in execs : e.id = id}

\* C32: for any interleaving of RunNow, cron ticks, debounce-timer fires, Upsert,
\* Remove, Start and Stop, at most one executor invocation for a given task id is
\* in progress at any time.
C32_OneExecutorPerTask == \A id \in TaskIds : Cardinality(ExecsOf(id)) <= 1

\* What st.running does guard: one invocation per taskState object.
C32_OneExecutorPerState ==
  \A e1, e2 \in execs : e1.obj = e2.obj => e1 = e2

\* runTask passes its first critical section and calls the executor.
ExecutorStarts ==
  \E id \in TaskIds, kind \in CallKinds : RunTaskEnter(id, kind) /\ execs' # execs

\* C34: after Stop has returned and until Start is called again, no executor
\* invocation is started by a cron tick, a watch event, a debounce timer armed
\* before Stop, or a pending rerun of a task that was running when Stop was
\* called. Stated over the behaviours without RunNow, in which every runTask call
\* is one of those four; nothing can trigger a run before the first Start there.
C34_NoStartAfterStop == [][(~started /\ ~trg.manual) => ~ExecutorStarts]_vars

\* The taskState objects tr.tasks points to, and the ones it no longer points to.
RegisteredObjs == {tasks[id] : id \in {i \in TaskIds : Registered(i)}}
DroppedObjs == {o \in ObjIds : st[o].live /\ o \notin RegisteredObjs}

\* A registered task holds a cron entry (a watcher) only while the runner is
\* started and the task is an enabled schedule (watch) task, and then it holds
\* one; a taskState that Remove dropped holds neither.
C38_CronAndWatcherInPlace ==
  /\ \A o \in RegisteredObjs :
       /\ st[o].cronEntry <=> (started /\ st[o].task.Enabled /\ st[o].task.Type = "schedule")
       /\ st[o].watcher <=> (started /\ st[o].task.Enabled /\ st[o].task.Type = "watch")
  /\ \A o \in DroppedObjs : ~st[o].cronEntry /\ ~st[o].watcher

\* A debounce timer is held only by a registered, enabled watch task.
NoStrayDebounce ==
  /\ \A o \in RegisteredObjs :
       st[o].debounce => st[o].task.Enabled /\ st[o].task.Type = "watch"
  /\ \A o \in DroppedObjs : ~st[o].debounce

\* C38: after any sequence of Start, Stop, Upsert and Remove, each registered task
\* has at most one cron entry and at most one watcher, and has one only while the
\* runner is started and the task is enabled with the matching type; replaced,
\* disabled or removed tasks leave no cron entry, debounce timer or watcher behind.
C38_NoResourceLeftBehind == C38_CronAndWatcherInPlace /\ NoStrayDebounce

\* A worker is at `errChan <- err` with errChan full. The channel is received from
\* only after wg.Wait(), which waits for this worker: the send never completes.
BkStuckOnErrChan(w) == bkW[w].pc = "err" /\ Len(bkErrChan) >= ErrChanCap

\* C33: Backup returns, with all its workers joined, for any number of jobs that
\* fail inside workers, more failing jobs than the capacity of the error channel
\* included: no worker is ever left at a send that cannot complete.
C33_ReturnsOnManyErrors == \A w \in BkWorkers : ~BkStuckOnErrChan(w)

\* With no more failing jobs than the channel holds, Backup returns the error.
C33_FewErrorsReturned ==
  /\ bkRet.kind = "err"
  /\ bkG.failed = ErrChanCap
  /\ \A w \in BkWorkers : bkW[w].pc = "exit"

\* C35: if flushing or closing the compressor, the encryptor or the destination
\* file fails at the end of Backup, after all workers finished without error,
\* Backup returns a non-nil error rather than reporting success.
C35_CloseErrorReported ==
  (bkRet.kind # "none" /\ bkG.closeErr # "none" /\ bkG.failed = 0 /\ ~bkCtxDone)
    => bkRet.kind # "nil"

\* The producer is at its plain send `jobs <- job{...}` with the channel full and
\* every worker gone: nothing will receive, the producer stays there, and with
\* it the goroutine that waits for it to close results.
EnProducerStuck ==
  /\ enProd.pc = "send"
  /\ Len(enJobs) >= PipeChanCap
  /\ \A w \in EnWorkers : enW[w].pc = "exit"

\* C36: if the consumer closes the decrypting reader before the end of the
\* stream, the producer, the workers and the aggregator all terminate; none
\* stays blocked on a channel send.
C36_EarlyCloseTerminates == enConsumer = "closed" => ~EnProducerStuck

\* After an early Close every goroutine of the reader has returned: the
\* schedulings in which the producer finds room in the jobs channel.
C36_AllReturned ==
  /\ enConsumer = "closed"
  /\ enProd.pc = "exit"
  /\ enAgg.pc = "exit"
  /\ \A w \in EnWorkers : enW[w].pc = "exit"
  /\ enResClosed
  /\ Len(enPipe.data) < Len(EnPlain)

\* C39: every buffer that holds the derived key, the copy handed to the parallel
\* pipeline included, has been zeroed by the time the encrypted writer has been
\* closed or the decrypting reader has reached the end of the stream.
C39_KeysZeroed ==
  /\ enPC \in {"open", "read"} => enKeys.wKey # "key" /\ enKeys.wKeyCopy # "key"
  /\ (enPC = "read" /\ enPipe.closed /\ enPipe.err = "EOF" /\ enConsumer = "reading")
       => enKeys.rKey # "key" /\ enKeys.rKeyCopy # "key"

\* The buffers deriveKey returned are zeroed when the constructors return.
C39_DerivedKeyZeroed ==
  /\ enPC \in {"open", "read"} => enKeys.wKey = "zero"
  /\ enPC = "read" => enKeys.rKey = "zero"

\* The byte values at the leaves of a node's subtree.
RECURSIVE LeafChars(_)
LeafChars(node) ==
  IF Len(node.kids) = 0 THEN {node.char}
  ELSE UNION {LeafChars(node.kids[i]) : i \in 1..Len(node.kids)}

\* The nodes of a tree: the root and the nodes of its children's subtrees.
RECURSIVE TreeNodes(_)
TreeNodes(node) ==
  {node} \cup UNION {TreeNodes(node.kids[i]) : i \in 1..Len(node.kids)}

\* The trees the compressor has built for the chunks of the data it was given.
TreesBuilt ==
  IF hfOut[1] = NoStream THEN {}
  ELSE UNION {buildHuffmanTree(buildFrequencyTable(writtenJobs(hfData)[i])) :
                i \in 1..Len(writtenJobs(hfData))}

\* C40: in every Huffman tree built by the codec, for any frequency table, each
\* node's minChar equals the minimum byte value among the leaves of that node's
\* subtree.
C40_MinCharIsMinimum ==
  \A t \in TreesBuilt : \A node \in TreeNodes(t) :
    \A c \in LeafChars(node) : node.minChar <= c

\* What the code keeps: a node's minChar is the byte of one of the leaves below
\* it, the minChar of its left child for an inner node.
C40_MinCharIsLeftmost ==
  \A t \in TreesBuilt : \A node \in TreeNodes(t) :
    /\ node.minChar \in LeafChars(node)
    /\ Len(node.kids) > 0 => node.minChar = node.kids[1].minChar

\* C37: for any list of source roots, no two entries produced by one scan share
\* the same relative path, so that every manifest path and every archive entry
\* path identifies exactly one source object.
C37_UniqueRelPaths ==
  \A i, j \in DOMAIN bkScan : bkScan[i].relPath = bkScan[j].relPath => i = j

\* For a single source root the relative paths of a scan are all different.
C37_UniqueForOneRoot == Len(bkIn.roots) = 1 => C37_UniqueRelPaths

====
